---- MODULE Spec2Model ----
(***************************************************************************)
(* Salesforce field metadata generator.                                    *)
(*                                                                         *)
(* The module models                                                       *)
(*   - the XML compiler generateXml with escapeXml and buildTag            *)
(*     (src/src/components/ImportModal.jsx),                               *)
(*   - the interactive editor and the field list of App                    *)
(*     (FieldEditor.handleChange, handleAddField, handleDeleteField,       *)
(*     handleSelectField, handleImportJSON; src/README.md).                *)
(*                                                                         *)
(* JavaScript values are tagged records [t, v]; a string is a sequence of  *)
(* code units.  A unit is one character; a run of characters that          *)
(* escapeXml leaves alone ("Text", "255") may be written as one unit.      *)
(***************************************************************************)
EXTENDS Integers, Sequences, FiniteSets, TLC

VARIABLES
    field,      \* the FieldSpec handed to generateXml
    xml,        \* the document of the latest generateXml(field) call
    prevXml,    \* the document of the call before that
    tagValue,   \* the string value handed to buildTag
    tagLine,    \* the line buildTag returned for tagValue
    fields,     \* App: the in-memory field list
    selectedId, \* App: the id of the selected field, or null
    now,        \* the latest value Date.now() returned
    alertMsg,   \* the message of the alert() on screen, "" when there is none
    errors,     \* FieldEditor: the validation errors on display
    inputText,  \* the text handed to normalizeCharacters, cutoffAfterFields or
                \* extractFieldSpecifications
    normalized, \* the result of normalizeCharacters(inputText)
    renormalized, \* the result of normalizeCharacters(normalized)
    cut,        \* the result of cutoffAfterFields(inputText)
    extracted,  \* the result of extractFieldSpecifications(inputText)
    response,   \* generateFieldsFromAI: the response of the generation service
    parserInput, \* generateFieldsFromAI: the text handed to JSON.parse
    failure,    \* generateFieldsFromAI: the message of the error it threw
    result,     \* generateFieldsFromAI: the value it returned
    stage,      \* where the running generation invocation stands
    sent,       \* number of requests sent to the generation service
    started,    \* number of generateFieldsFromAI calls
    aiInput,    \* ImportModal: the text of the AI input box
    error,      \* ImportModal: the error on display
    jsonText,   \* ImportModal: the generated JSON
    isGenerating, \* ImportModal: a generation is running
    partialResult, \* ImportModal: the JSON kept from before a failed generation
    generationProgress, \* ImportModal: the progress line
    uploadedFileName, \* ImportModal: the name of the uploaded file
    reading,    \* the uploaded files that parseFile is reading
    parseCalls, \* number of parseFile calls
    resetTimers \* ImportModal: number of pending timers that clear the progress line

xmlVars == <<field, xml, prevXml>>
tagVars == <<tagValue, tagLine>>
appVars == <<fields, selectedId, now, alertMsg, errors>>
docVars == <<inputText, normalized, renormalized, cut, extracted>>
respVars == <<response, parserInput, failure, result>>
genVars == <<stage, sent, started>>
modalVars == <<aiInput, error, jsonText, isGenerating, partialResult, generationProgress,
               uploadedFileName, reading, parseCalls, resetTimers>>
aiVars == <<docVars, respVars, genVars, modalVars>>
\* what the document functions leave alone
otherVars == <<xmlVars, tagVars, appVars, respVars, genVars, modalVars>>
vars == <<field, xml, prevXml, tagValue, tagLine, fields, selectedId, now, alertMsg, errors,
          inputText, normalized, renormalized, cut, extracted,
          response, parserInput, failure, result, stage, sent, started,
          aiInput, error, jsonText, isGenerating, partialResult, generationProgress,
          uploadedFileName, reading, parseCalls, resetTimers>>

\* --------------------------------------------------------------------------
\* Bounds
\* --------------------------------------------------------------------------
\* number of attributes besides type that a FieldSpec of Init has set
MaxSetAttrs == 2
\* length of the strings handed to buildTag
MaxStrLen == 4
\* length of the field list of App and of an imported fields list
MaxFields == 2
\* number of readings of the clock (Date.now()) after the initial state
MaxClock == 3
\* length of the strings handed to normalizeCharacters
MaxNormLen == 3
\* number of blocks of lines of a document handed to cutoffAfterFields and
\* extractFieldSpecifications
MaxBlocks == 4
\* number of pieces of a response text of the generation service
MaxParts == 5
\* number of generateFieldsFromAI calls of the import modal
MaxInvocations == 3
\* number of parseFile calls of the import modal
MaxUploads == 2

\* --------------------------------------------------------------------------
\* Constants of the program
\* --------------------------------------------------------------------------
\* lines after the last field that cutoffAfterFields never cuts at
FieldBuffer == 15
\* text.length below which extractFieldSpecifications returns the whole text
SmallDocumentLength == 3000
\* extracted.length below which extractFieldSpecifications discards the extraction
MinExtractedLength == 100
\* the size in megabytes that handleAiFileUpload and parseFile accept
MaxSizeMB == 10

\* --------------------------------------------------------------------------
\* JavaScript values
\* --------------------------------------------------------------------------
Undef == [t |-> "undefined", v |-> 0]
Null == [t |-> "null", v |-> 0]
B(b) == [t |-> "bool", v |-> b]
N(n) == [t |-> "num", v |-> n]
Str(s) == [t |-> "str", v |-> s]
S(u) == Str(<<u>>)
EmptyStr == Str(<<>>)
Arr(a) == [t |-> "arr", v |-> a]

\* JavaScript truthiness: the test of `!x`, `x || y`, `x && y`, `if (x)`
Truthy(x) ==
    CASE x.t = "undefined" -> FALSE
      [] x.t = "null" -> FALSE
      [] x.t = "bool" -> x.v
      [] x.t = "num" -> x.v # 0
      [] x.t = "str" -> x.v # <<>>
      [] OTHER -> TRUE

\* x || y
Or(x, y) == IF Truthy(x) THEN x ELSE y

\* String(x) of a value that is not undefined or null
ToStr(x) ==
    CASE x.t = "str" -> x.v
      [] x.t = "num" -> <<ToString(x.v)>>
      [] x.t = "bool" -> IF x.v THEN <<"true">> ELSE <<"false">>
      [] OTHER -> <<"[object]">>

\* --------------------------------------------------------------------------
\* escapeXml, buildTag
\* --------------------------------------------------------------------------
RECURSIVE ReplaceAll(_, _, _)
\* s.replace(/c/g, rep)
ReplaceAll(s, c, rep) ==
    IF s = <<>> THEN <<>>
    ELSE (IF Head(s) = c THEN rep ELSE <<Head(s)>>) \o ReplaceAll(Tail(s), c, rep)

AmpEntity == <<"&", "a", "m", "p", ";">>
LtEntity == <<"&", "l", "t", ";">>
GtEntity == <<"&", "g", "t", ";">>
QuotEntity == <<"&", "q", "u", "o", "t", ";">>
AposEntity == <<"&", "a", "p", "o", "s", ";">>

\* escapeXml with the ampersand replaced last instead of first
escapeXmlAmpLast(str) ==
    IF ~Truthy(str) THEN <<>>
    ELSE ReplaceAll(ReplaceAll(ReplaceAll(ReplaceAll(ReplaceAll(ToStr(str),
            "<", LtEntity), ">", GtEntity), "\"", QuotEntity), "'", AposEntity), "&", AmpEntity)

escapeXml(str) ==
    IF ~Truthy(str) THEN <<>>
    ELSE ReplaceAll(ReplaceAll(ReplaceAll(ReplaceAll(ReplaceAll(ToStr(str),
            "&", AmpEntity), "<", LtEntity), ">", GtEntity), "\"", QuotEntity), "'", AposEntity)

\* the '' that buildTag returns for a suppressed tag
EmptyPart == [kind |-> "empty", name |-> "", indent |-> 0, body |-> <<>>]
\* `${indent}<${name}>${body}</${name}>`
Elem(name, indent, body) == [kind |-> "elem", name |-> name, indent |-> indent, body |-> body]
\* `${indent}<${name}>` and `${indent}</${name}>`
Open(name, indent) == [kind |-> "open", name |-> name, indent |-> indent, body |-> <<>>]
Close(name, indent) == [kind |-> "close", name |-> name, indent |-> indent, body |-> <<>>]

XML_HEADER == [kind |-> "decl", name |-> "xml", indent |-> 0, body |-> <<>>]
XML_NAMESPACE == "http://soap.sforce.com/2006/04/metadata"

buildTag(name, value, indent) ==
    IF value = Undef \/ value = Null \/ value = EmptyStr THEN EmptyPart
    ELSE Elem(name, indent, escapeXml(value))

\* --------------------------------------------------------------------------
\* FieldSpec
\* --------------------------------------------------------------------------
FIELD_TYPES ==
    {"Text", "TextArea", "LongTextArea", "RichTextArea", "Number", "Currency",
     "Percent", "Checkbox", "Date", "DateTime", "Email",
     "Phone", "Url", "Picklist", "MultiselectPicklist", "Lookup", "MasterDetail", "Formula"}

DELETE_CONSTRAINTS == {"SetNull", "Restrict", "Cascade"}

\* the attributes of a field object that generateXml reads, besides type;
\* App adds id
Attrs ==
    {"apiName", "label", "helpText", "required", "trackHistory", "externalId", "unique",
     "length", "visibleLines", "precision", "scale", "defaultValue", "deleteConstraint",
     "referenceTo", "relationshipLabel", "relationshipName", "relationshipOrder",
     "reparentableMasterDetail", "writeRequiresMasterRead", "formula", "returnType",
     "treatBlanksAs", "picklistValues", "restricted"}

\* one entry of picklistValues: {fullName, label, default}
PV(fullName, label, default) == [fullName |-> fullName, label |-> label, default |-> default]
PvA == PV(S("A"), S("Option A"), B(TRUE))
PvB == PV(S("B"), S("Option B"), B(FALSE))
PvC == PV(S("C"), Undef, Undef)
PvD == PV(S("D"), EmptyStr, B(FALSE))

\* the values an attribute of an input FieldSpec is drawn from when it is set
AttrValues(a) ==
    CASE a = "apiName" -> {EmptyStr, S("A__c"), Str(<<"A", "&", "B">>)}
      [] a = "label" -> {EmptyStr, S("A"), Str(<<"<", "A", ">">>)}
      [] a = "helpText" -> {EmptyStr, S("help")}
      [] a \in {"required", "trackHistory", "externalId", "unique"} ->
            {B(TRUE), B(FALSE), S("true")}
      [] a = "restricted" -> {B(TRUE), B(FALSE)}
      [] a = "length" -> {N(0), N(255)}
      [] a = "visibleLines" -> {N(3)}
      [] a = "precision" -> {N(10)}
      [] a = "scale" -> {N(0), N(2)}
      [] a = "defaultValue" -> {S("true"), S("false")}
      [] a = "deleteConstraint" -> {S("SetNull"), S("Restrict")}
      [] a = "referenceTo" -> {S("Account")}
      [] a = "relationshipLabel" -> {S("Children")}
      [] a = "relationshipName" -> {S("Children_r")}
      [] a = "relationshipOrder" -> {N(0), N(1)}
      [] a \in {"reparentableMasterDetail", "writeRequiresMasterRead"} ->
            {B(FALSE), B(TRUE), S("true"), S("false")}
      [] a = "formula" -> {Str(<<"A", "<", "B">>)}
      [] a = "returnType" -> {S("Number"), S("Text")}
      [] a = "treatBlanksAs" -> {S("BlankAsBlank")}
      [] a = "picklistValues" ->
            {Arr(<<>>), Arr(<<PvA, PvB>>), Arr(<<PvB, PvA>>), Arr(<<PvC, PvD, PvA>>)}
      [] OTHER -> {}

\* a field object with nothing but its type
BareField(type) == [a \in Attrs \cup {"type", "id"} |-> IF a = "type" THEN S(type) ELSE Undef]

RECURSIVE AttrSets(_)
\* the sets of at most n attributes
AttrSets(n) ==
    IF n = 0 THEN {{}}
    ELSE LET P == AttrSets(n - 1)
         IN  P \cup {T \cup {a} : T \in P, a \in Attrs}

RECURSIVE FieldsSetting(_, _)
\* the field objects of a type that have exactly the attributes of set T set
FieldsSetting(type, T) ==
    IF T = {} THEN {BareField(type)}
    ELSE LET a == CHOOSE x \in T : TRUE
         IN  {[f EXCEPT ![a] = v] : f \in FieldsSetting(type, T \ {a}), v \in AttrValues(a)}

\* --------------------------------------------------------------------------
\* generateXml
\* --------------------------------------------------------------------------
\* `if (cond) parts.push(line)`
Push(cond, line) == IF cond THEN <<line>> ELSE <<>>

\* [..].includes(field.type)
TypeIn(f, types) == \E ty \in types : f.type = S(ty)

NumericTypes == {"Number", "Currency", "Percent"}

\* the condition of the precision and scale tags
IsNumeric(f) ==
    \/ TypeIn(f, NumericTypes)
    \/ (f.type = S("Formula") /\ \E ty \in NumericTypes : f.returnType = S(ty))

\* x === true ? 'true' : 'false'
TrueFalse(x) == IF x = B(TRUE) THEN S("true") ELSE S("false")

\* x !== undefined ? x : d
Defined(x, d) == IF x # Undef THEN x ELSE d

RECURSIVE ValuePartsNoFallback(_)
\* ValueParts with the label taken from pv.label alone
ValuePartsNoFallback(pvs) ==
    IF pvs = <<>> THEN <<>>
    ELSE LET pv == Head(pvs)
         IN  <<Open("value", 12),
               buildTag("fullName", pv.fullName, 16),
               buildTag("default", TrueFalse(pv.default), 16),
               buildTag("label", pv.label, 16),
               Close("value", 12)>> \o ValuePartsNoFallback(Tail(pvs))

RECURSIVE ValueParts(_)
\* field.picklistValues.forEach(pv => ...)
ValueParts(pvs) ==
    IF pvs = <<>> THEN <<>>
    ELSE LET pv == Head(pvs)
         IN  <<Open("value", 12),
               buildTag("fullName", pv.fullName, 16),
               buildTag("default", TrueFalse(pv.default), 16),
               buildTag("label", Or(pv.label, pv.fullName), 16),
               Close("value", 12)>> \o ValueParts(Tail(pvs))

\* the valueSet block of Picklist and MultiselectPicklist
ValueSetParts(f) ==
    IF TypeIn(f, {"Picklist", "MultiselectPicklist"})
    THEN <<Open("valueSet", 4),
           buildTag("restricted", IF f.restricted # B(FALSE) THEN S("true") ELSE S("false"), 8),
           Open("valueSetDefinition", 8),
           Elem("sorted", 12, <<"false">>)>>
         \o (IF Truthy(f.picklistValues) /\ Len(f.picklistValues.v) > 0
             THEN ValueParts(f.picklistValues.v) ELSE <<>>)
         \o <<Close("valueSetDefinition", 8), Close("valueSet", 4)>>
    ELSE <<>>

\* the three MasterDetail-only tags
RelationshipOrderPart(f) ==
    Push(f.type = S("MasterDetail"),
         buildTag("relationshipOrder", Defined(f.relationshipOrder, N(0)), 4))

ReparentablePart(f) ==
    Push(f.type = S("MasterDetail"),
         buildTag("reparentableMasterDetail", Defined(f.reparentableMasterDetail, S("false")), 4))

WriteRequiresPart(f) ==
    Push(f.type = S("MasterDetail"),
         buildTag("writeRequiresMasterRead", Defined(f.writeRequiresMasterRead, S("false")), 4))

\* DeleteConstraintPart re-validating the Lookup rule: a required field gets Restrict
DeleteConstraintPartCoerced(f) ==
    Push(f.type = S("Lookup") /\ Truthy(f.deleteConstraint),
         buildTag("deleteConstraint",
                  IF f.required = B(TRUE) /\ f.deleteConstraint = S("SetNull")
                  THEN S("Restrict") ELSE f.deleteConstraint, 4))

DeleteConstraintPart(f) ==
    Push(f.type = S("Lookup") /\ Truthy(f.deleteConstraint),
         buildTag("deleteConstraint", f.deleteConstraint, 4))

\* ReferenceToPart without the test of the type
ReferenceToPartAnyType(f) ==
    Push(Truthy(f.referenceTo), buildTag("referenceTo", f.referenceTo, 4))

ReferenceToPart(f) ==
    Push(TypeIn(f, {"Lookup", "MasterDetail"}) /\ Truthy(f.referenceTo),
         buildTag("referenceTo", f.referenceTo, 4))

\* RequiredPart testing the attribute for truthiness instead of `=== true`
RequiredPartTruthy(f) ==
    Push(f.type # S("MasterDetail"),
         buildTag("required", IF Truthy(f.required) THEN S("true") ELSE S("false"), 4))

RequiredPart(f) ==
    Push(f.type # S("MasterDetail"), buildTag("required", TrueFalse(f.required), 4))

ScalePart(f) ==
    Push(IsNumeric(f), buildTag("scale", Defined(f.scale, N(2)), 4))

\* the pushes from the XML declaration to label
HeadParts(f) ==
    <<XML_HEADER, Open("CustomField", 0)>>
    \o <<buildTag("fullName", f.apiName, 4)>>
    \o Push(f.type = S("Checkbox"), buildTag("defaultValue", Or(f.defaultValue, S("false")), 4))
    \o DeleteConstraintPart(f)
    \o Push(f.externalId # Undef, buildTag("externalId", TrueFalse(f.externalId), 4))
    \o Push(f.type = S("Formula") /\ Truthy(f.formula), buildTag("formula", f.formula, 4))
    \o Push(f.type = S("Formula"),
            buildTag("formulaTreatBlanksAs", Or(f.treatBlanksAs, S("BlankAsZero")), 4))
    \o Push(Truthy(f.helpText), buildTag("inlineHelpText", f.helpText, 4))
    \o <<buildTag("label", f.label, 4)>>

\* the pushes from length to scale
MidParts(f) ==
    Push(TypeIn(f, {"Text", "Email", "Phone", "Url", "TextArea"}) /\ Truthy(f.length),
         buildTag("length", f.length, 4))
    \o Push(TypeIn(f, {"LongTextArea", "RichTextArea"}) /\ Truthy(f.length),
            buildTag("length", f.length, 4))
    \o Push(TypeIn(f, {"TextArea", "LongTextArea", "RichTextArea"}) /\ Truthy(f.visibleLines),
            buildTag("visibleLines", f.visibleLines, 4))
    \o Push(IsNumeric(f), buildTag("precision", Or(f.precision, N(18)), 4))
    \o ReferenceToPart(f)
    \o Push(TypeIn(f, {"Lookup", "MasterDetail"}) /\ Truthy(f.relationshipLabel),
            buildTag("relationshipLabel", f.relationshipLabel, 4))
    \o Push(TypeIn(f, {"Lookup", "MasterDetail"}) /\ Truthy(f.relationshipName),
            buildTag("relationshipName", f.relationshipName, 4))
    \o RelationshipOrderPart(f)
    \o ReparentablePart(f)
    \o RequiredPart(f)
    \o ScalePart(f)

\* TailParts with the type tag pushed before trackHistory
TailPartsTypeFirst(f) ==
    <<IF f.type = S("Formula") THEN buildTag("type", Or(f.returnType, S("Text")), 4)
      ELSE buildTag("type", f.type, 4)>>
    \o <<buildTag("trackHistory", TrueFalse(f.trackHistory), 4)>>
    \o Push(f.unique # Undef, buildTag("unique", TrueFalse(f.unique), 4))
    \o ValueSetParts(f)
    \o Push(f.type = S("MultiselectPicklist") /\ Truthy(f.visibleLines),
            buildTag("visibleLines", f.visibleLines, 4))
    \o WriteRequiresPart(f)
    \o <<Close("CustomField", 0)>>

\* TailParts with the type tag carrying field.type for every type
TailPartsOwnType(f) ==
    <<buildTag("trackHistory", TrueFalse(f.trackHistory), 4)>>
    \o <<buildTag("type", f.type, 4)>>
    \o Push(f.unique # Undef, buildTag("unique", TrueFalse(f.unique), 4))
    \o ValueSetParts(f)
    \o Push(f.type = S("MultiselectPicklist") /\ Truthy(f.visibleLines),
            buildTag("visibleLines", f.visibleLines, 4))
    \o WriteRequiresPart(f)
    \o <<Close("CustomField", 0)>>

\* the pushes from trackHistory to the close line
TailParts(f) ==
    <<buildTag("trackHistory", TrueFalse(f.trackHistory), 4)>>
    \o <<IF f.type = S("Formula") THEN buildTag("type", Or(f.returnType, S("Text")), 4)
         ELSE buildTag("type", f.type, 4)>>
    \o Push(f.unique # Undef, buildTag("unique", TrueFalse(f.unique), 4))
    \o ValueSetParts(f)
    \o Push(f.type = S("MultiselectPicklist") /\ Truthy(f.visibleLines),
            buildTag("visibleLines", f.visibleLines, 4))
    \o WriteRequiresPart(f)
    \o <<Close("CustomField", 0)>>

\* everything generateXml pushes, in the order of the pushes
Parts(f) == HeadParts(f) \o MidParts(f) \o TailParts(f)

\* parts.filter(p => p !== '').join('\n'): the document as its sequence of lines
generateXml(f) == SelectSeq(Parts(f), LAMBDA p : p # EmptyPart)

\* --------------------------------------------------------------------------
\* Specification of the XML compiler: generateXml called on a FieldSpec
\* --------------------------------------------------------------------------
NoXml == <<>>
NoTag == [kind |-> "none", name |-> "", indent |-> 0, body |-> <<>>]

XmlIdle == field = BareField("Text") /\ xml = NoXml /\ prevXml = NoXml
TagIdle == tagValue = <<>> /\ tagLine = NoTag
AppIdle == fields = <<>> /\ selectedId = Null /\ now = 0 /\ alertMsg = "" /\ errors = <<>>
\* a text that has not been computed
NoText == <<"(none)">>
DocIdle ==
    /\ inputText = <<>>
    /\ normalized = NoText
    /\ renormalized = NoText
    /\ cut = NoText
    /\ extracted = NoText
\* no response, no error message, no value, no file
NoResponse == [kind |-> "none"]
NoMsg == <<"(none)">>
NoValue == [t |-> "none", v |-> 0]
NoFile == [name |-> <<>>, size |-> 0, content |-> NoText]
RespIdle ==
    /\ response = NoResponse
    /\ parserInput = NoText
    /\ failure = NoMsg
    /\ result = NoValue
GenIdle == stage = "idle" /\ sent = 0 /\ started = 0
ModalIdle ==
    /\ aiInput = <<>>
    /\ error = <<>>
    /\ jsonText = <<>>
    /\ isGenerating = FALSE
    /\ partialResult = Null
    /\ generationProgress = ""
    /\ uploadedFileName = <<>>
    /\ reading = {}
    /\ parseCalls = 0
    /\ resetTimers = 0
AiIdle == DocIdle /\ RespIdle /\ GenIdle /\ ModalIdle

XmlInit ==
    /\ \E type \in FIELD_TYPES, T \in AttrSets(MaxSetAttrs) : field \in FieldsSetting(type, T)
    /\ xml = NoXml
    /\ prevXml = NoXml
    /\ TagIdle
    /\ AppIdle
    /\ AiIdle

\* Compile with the picklist values reversed in place while they are walked
CompileReversing ==
    /\ prevXml = NoXml
    /\ xml' = generateXml(field)
    /\ prevXml' = xml
    /\ field' = IF field.picklistValues.t = "arr"
                THEN [field EXCEPT !.picklistValues =
                        Arr([i \in 1..Len(@.v) |-> @.v[Len(@.v) + 1 - i]])]
                ELSE field
    /\ UNCHANGED <<tagVars, appVars, aiVars>>

\* one call generateXml(field): XmlPreview render, handleDownload, handleDownloadSingleField
Compile ==
    /\ prevXml = NoXml
    /\ xml' = generateXml(field)
    /\ prevXml' = xml
    /\ field' = field
    /\ UNCHANGED <<tagVars, appVars, aiVars>>

XmlNext == Compile

XmlSpec == XmlInit /\ [][XmlNext]_vars

\* --------------------------------------------------------------------------
\* Specification of buildTag: one string value placed in a tag body
\* --------------------------------------------------------------------------
\* the five characters escapeXml replaces, and three it leaves alone
Alphabet == {"&", "<", ">", "\"", "'", "l", "t", ";"}

\* the strings of at most n characters
Strings(n) == UNION {[1..k -> Alphabet] : k \in 0..n}

TagInit ==
    /\ tagValue \in Strings(MaxStrLen)
    /\ tagLine = NoTag
    /\ XmlIdle
    /\ AppIdle
    /\ AiIdle

\* one call buildTag(name, tagValue)
BuildTag ==
    /\ tagLine = NoTag
    /\ tagLine' = buildTag("label", Str(tagValue), 4)
    /\ UNCHANGED <<tagValue, xmlVars, appVars, aiVars>>

TagNext == BuildTag

TagSpec == TagInit /\ [][TagNext]_vars

\* --------------------------------------------------------------------------
\* App and FieldEditor (src/README.md)
\* --------------------------------------------------------------------------
\* The tab bar, the visibility of the import modal and the mobile sidebar are
\* presentation state that none of the handlers below reads; they are left out.

\* Date.now().toString() and Date.now().toString() + index.  Every reading of
\* the clock is later than the readings before it.
TimeId(t) == Str(<<ToString(t)>>)
TimeIndexId(t, index) == Str(<<ToString(t), ToString(index)>>)

INITIAL_FIELDS ==
    <<[BareField("Text") EXCEPT
        !.id = S("1"),
        !.apiName = S("Sample_Text__c"),
        !.label = S("Sample Text"),
        !.length = N(255),
        !.required = B(FALSE),
        !.trackHistory = B(FALSE),
        !.externalId = B(FALSE),
        !.unique = B(FALSE)]>>

\* the newField of handleAddField
NewField(t) ==
    [BareField("Text") EXCEPT
        !.id = TimeId(t),
        !.apiName = S("New_Field__c"),
        !.label = S("New Field"),
        !.length = N(255),
        !.required = B(FALSE),
        !.trackHistory = B(FALSE),
        !.externalId = B(FALSE),
        !.unique = B(FALSE)]

\* the indexes of the fields with id `id`
IndexesOf(fs, id) == {i \in 1..Len(fs) : fs[i].id = id}

\* fields.find(f => f.id === selectedId) finds a field
HasSelectedField == IndexesOf(fields, selectedId) # {}

\* const selectedField = fields.find(f => f.id === selectedId)
selectedField ==
    LET I == IndexesOf(fields, selectedId)
    IN  fields[CHOOSE i \in I : \A j \in I : i <= j]

\* fields.filter(f => f.id !== id)
WithoutId(fs, id) == SelectSeq(fs, LAMBDA f : f.id # id)

\* the newErrors of handleChange
ValidationErrors(updated) ==
    (IF ~Truthy(updated.apiName) THEN <<"API Name is required">> ELSE <<>>)
    \o (IF ~Truthy(updated.label) THEN <<"Label is required">> ELSE <<>>)
    \o (IF updated.type = S("Text")
           /\ (~Truthy(updated.length) \/ (updated.length.t = "num" /\ updated.length.v > 255))
        THEN <<"Text length must be between 1 and 255">> ELSE <<>>)
    \o (IF TypeIn(updated, {"Lookup", "MasterDetail"}) /\ ~Truthy(updated.referenceTo)
        THEN <<"Reference To object is required for Lookup/MasterDetail fields">> ELSE <<>>)
    \o (IF updated.type = S("Formula") /\ ~Truthy(updated.formula)
        THEN <<"Formula expression is required">> ELSE <<>>)

\* the object handleChange hands to onChange: the edit and the two Lookup
\* coercions, both tested on the type of the field before the edit
Updated(f, key, value) ==
    LET u0 == [f EXCEPT ![key] = value]
        u1 == IF f.type = S("Lookup") /\ key = "required" /\ value = B(TRUE)
                 /\ u0.deleteConstraint = S("SetNull")
              THEN [u0 EXCEPT !.deleteConstraint = S("Restrict")]
              ELSE u0
    IN  IF f.type = S("Lookup") /\ key = "deleteConstraint" /\ value = S("SetNull")
           /\ u1.required = B(TRUE)
        THEN [u1 EXCEPT !.required = B(FALSE)]
        ELSE u1

\* App.handleUpdateField: fields.map(f => f.id === updatedField.id ? updatedField : f)
UpdateField(fs, updatedField) ==
    [i \in 1..Len(fs) |-> IF fs[i].id = updatedField.id THEN updatedField ELSE fs[i]]

\* FieldEditor.handleChange(key, value) on the selected field, with onChange
\* bound to App.handleUpdateField
handleChange(key, value) ==
    /\ HasSelectedField
    /\ alertMsg = ""
    /\ LET updated == Updated(selectedField, key, value)
       IN  /\ fields' = UpdateField(fields, updated)
           /\ errors' = ValidationErrors(updated)
    /\ UNCHANGED <<selectedId, now, alertMsg, xmlVars, tagVars, aiVars>>

\* the control that calls handleChange(key, value) is on screen, enabled and
\* changed to `value`: the Delete Constraint select is rendered for Lookup
\* only, shows SetNull while the attribute is unset and is disabled while
\* required is true; Related To is rendered for Lookup and MasterDetail; a
\* checkbox reports the opposite of what it shows
ControlEnabled(f, key, value) ==
    CASE key = "deleteConstraint" ->
            /\ f.type = S("Lookup")
            /\ f.required # B(TRUE)
            /\ value # Or(f.deleteConstraint, S("SetNull"))
      [] key = "referenceTo" ->
            TypeIn(f, {"Lookup", "MasterDetail"}) /\ value # Or(f.referenceTo, EmptyStr)
      [] key = "type" -> value # f.type
      [] key \in {"required", "trackHistory", "externalId", "unique"} ->
            value # Or(f[key], B(FALSE))
      [] OTHER -> TRUE

\* App.handleAddField
handleAddField ==
    /\ alertMsg = ""
    /\ now < MaxClock
    /\ Len(fields) < MaxFields
    /\ now' = now + 1
    /\ fields' = Append(fields, NewField(now'))
    /\ selectedId' = NewField(now').id
    /\ UNCHANGED <<alertMsg, errors, xmlVars, tagVars, aiVars>>

\* App.handleDeleteField(id)
handleDeleteField(id) ==
    /\ alertMsg = ""
    /\ LET newFields == WithoutId(fields, id)
       IN  /\ fields' = newFields
           /\ selectedId' = IF selectedId = id
                            THEN (IF Len(newFields) > 0 THEN newFields[1].id ELSE Null)
                            ELSE selectedId
           \* FieldEditor is unmounted while no field is selected
           /\ errors' = IF IndexesOf(newFields, selectedId') = {} THEN <<>> ELSE errors
    /\ UNCHANGED <<now, alertMsg, xmlVars, tagVars, aiVars>>

\* App.handleSelectField(id)
handleSelectField(id) ==
    /\ alertMsg = ""
    /\ selectedId' = id
    /\ UNCHANGED <<fields, now, alertMsg, errors, xmlVars, tagVars, aiVars>>

\* --- import ---------------------------------------------------------------
\* a JavaScript object seen through its `fields` attribute (Undef when absent)
Obj(fieldsAttr) == [t |-> "obj", v |-> fieldsAttr]
\* an entry of a fields list that is a field object
FieldObj(f) == [t |-> "field", v |-> f]

\* data.fields; reading an attribute of null or undefined throws
ThrowsOnRead(data) == data = Null \/ data = Undef
FieldsOf(data) == IF data.t = "obj" THEN data.v ELSE Undef

\* the object the map callback builds for entry `e` at `index`
ImportedField(e, index, t) ==
    [e.v EXCEPT
        !.id = TimeIndexId(t, index),
        !.required = Or(@, B(FALSE)),
        !.trackHistory = Or(@, B(FALSE)),
        !.externalId = Or(@, B(FALSE)),
        !.unique = Or(@, B(FALSE))]

\* the jsonData of one handleImportJSON call: a string (that parses to `data`
\* or does not parse) or the value `data` itself
Payload(text, parses, data) == [text |-> text, parses |-> parses, data |-> data]

\* the call ends in the catch block: JSON.parse throws, data.fields throws,
\* or the map callback throws on a null entry
ImportThrows(p) ==
    \/ p.text /\ ~p.parses
    \/ ThrowsOnRead(p.data)
    \/ /\ FieldsOf(p.data).t = "arr"
       /\ \E i \in 1..Len(FieldsOf(p.data).v) : ThrowsOnRead(FieldsOf(p.data).v[i])

\* !data.fields || !Array.isArray(data.fields)
ImportInvalidFormat(p) ==
    /\ ~(p.text /\ ~p.parses)
    /\ ~ThrowsOnRead(p.data)
    /\ (~Truthy(FieldsOf(p.data)) \/ FieldsOf(p.data).t # "arr")

InvalidFormatMsg == "Invalid JSON format. Expected { \"fields\": [...] }"
ParseErrorMsg == "Error parsing JSON: "

\* handleImportJSON emptying the list before it looks at the payload
handleImportJSONClearing(p) ==
    /\ alertMsg = ""
    /\ IF ImportInvalidFormat(p)
       THEN /\ alertMsg' = InvalidFormatMsg
            /\ fields' = <<>>
            /\ UNCHANGED <<selectedId, now, errors>>
       ELSE IF ImportThrows(p)
       THEN /\ alertMsg' = ParseErrorMsg
            /\ fields' = <<>>
            /\ UNCHANGED <<selectedId, now, errors>>
       ELSE /\ now < MaxClock
            /\ now' = now + 1
            /\ LET entries == FieldsOf(p.data).v
                   importedFields ==
                       [i \in 1..Len(entries) |-> ImportedField(entries[i], i - 1, now')]
               IN  /\ fields' = importedFields
                   /\ selectedId' = IF Len(importedFields) > 0
                                    THEN importedFields[1].id ELSE selectedId
                   /\ errors' = IF IndexesOf(importedFields, selectedId') = {}
                                THEN <<>> ELSE errors
            /\ UNCHANGED alertMsg
    /\ UNCHANGED <<xmlVars, tagVars, aiVars>>

\* App.handleImportJSON(jsonData)
handleImportJSON(p) ==
    /\ alertMsg = ""
    /\ IF ImportInvalidFormat(p)
       THEN /\ alertMsg' = InvalidFormatMsg
            /\ UNCHANGED <<fields, selectedId, now, errors>>
       ELSE IF ImportThrows(p)
       THEN /\ alertMsg' = ParseErrorMsg
            /\ UNCHANGED <<fields, selectedId, now, errors>>
       ELSE /\ now < MaxClock
            /\ now' = now + 1
            /\ LET entries == FieldsOf(p.data).v
                   importedFields ==
                       [i \in 1..Len(entries) |-> ImportedField(entries[i], i - 1, now')]
               IN  /\ fields' = importedFields
                   /\ selectedId' = IF Len(importedFields) > 0
                                    THEN importedFields[1].id ELSE selectedId
                   /\ errors' = IF IndexesOf(importedFields, selectedId') = {}
                                THEN <<>> ELSE errors
            /\ UNCHANGED alertMsg
    /\ UNCHANGED <<xmlVars, tagVars, aiVars>>

\* the user dismisses the alert
DismissAlert ==
    /\ alertMsg # ""
    /\ alertMsg' = ""
    /\ UNCHANGED <<fields, selectedId, now, errors, xmlVars, tagVars, aiVars>>

\* the entries an imported fields list is made of
EntryText ==
    [BareField("Text") EXCEPT !.apiName = S("New_Field__c"), !.label = S("Name"),
                              !.length = N(80)]
EntryLookup ==
    [BareField("Lookup") EXCEPT !.apiName = S("Account__c"), !.label = S("Account"),
                                !.referenceTo = S("Account"), !.required = B(TRUE),
                                !.deleteConstraint = S("Restrict")]
ImportEntries == {FieldObj(EntryText), FieldObj(EntryLookup), Null}

\* the payloads handed to handleImportJSON
ImportData ==
    {Null, N(5), Obj(Undef), Obj(S("x"))}
    \cup {Obj(Arr(l)) : l \in UNION {[1..k -> ImportEntries] : k \in 0..MaxFields}}
Payloads ==
    {Payload(TRUE, FALSE, Undef)}
    \cup {Payload(tx, TRUE, d) : tx \in BOOLEAN, d \in ImportData}

\* the edits made through the editor's controls in AppSpec
AppEdits == {<<"required", B(TRUE)>>, <<"required", B(FALSE)>>}

AppInit ==
    /\ fields = INITIAL_FIELDS
    /\ selectedId = S("1")
    /\ now = 0
    /\ alertMsg = ""
    /\ errors = <<>>
    /\ XmlIdle
    /\ TagIdle
    /\ AiIdle

AppEdit ==
    \E e \in AppEdits :
        /\ HasSelectedField
        /\ ControlEnabled(selectedField, e[1], e[2])
        /\ handleChange(e[1], e[2])

AppAdd == handleAddField
AppDelete == \E i \in 1..Len(fields) : handleDeleteField(fields[i].id)
AppSelect == \E i \in 1..Len(fields) : handleSelectField(fields[i].id)
AppImport == \E p \in Payloads : handleImportJSON(p)

AppNext == AppEdit \/ AppAdd \/ AppDelete \/ AppSelect \/ AppImport \/ DismissAlert

AppSpec == AppInit /\ [][AppNext]_vars

\* --------------------------------------------------------------------------
\* Specification of the editor: handleChange edits of one selected field
\* --------------------------------------------------------------------------
\* fields the editor may be opened on; none is a Lookup with required = true
\* and deleteConstraint = SetNull
EditorStartFields ==
    {INITIAL_FIELDS[1],
     [EntryLookup EXCEPT !.id = S("1")],
     [EntryLookup EXCEPT !.id = S("1"), !.required = B(FALSE),
                         !.deleteConstraint = S("SetNull")],
     [EntryLookup EXCEPT !.id = S("1"), !.deleteConstraint = Undef]}

\* the edits made through the editor's controls
EditorEdits ==
    {<<"type", S(ty)>> : ty \in FIELD_TYPES}
    \cup {<<"required", B(b)>> : b \in BOOLEAN}
    \cup {<<"deleteConstraint", S(dc)>> : dc \in DELETE_CONSTRAINTS}
    \cup {<<"trackHistory", B(b)>> : b \in BOOLEAN}
    \cup {<<"referenceTo", S("Account")>>, <<"referenceTo", EmptyStr>>}

EditorInit ==
    /\ \E f \in EditorStartFields : fields = <<f>>
    /\ selectedId = S("1")
    /\ now = 0
    /\ alertMsg = ""
    /\ errors = <<>>
    /\ XmlIdle
    /\ TagIdle
    /\ AiIdle

EditorEdit ==
    \E e \in EditorEdits :
        /\ HasSelectedField
        /\ ControlEnabled(selectedField, e[1], e[2])
        /\ handleChange(e[1], e[2])

EditorNext == EditorEdit

EditorSpec == EditorInit /\ [][EditorNext]_vars

\* --------------------------------------------------------------------------
\* normalizeCharacters (src/unnamed/part_001)
\* --------------------------------------------------------------------------
\* A character outside ASCII is written as the unit "uXXXX" of its code point.

\* the character classes of the replace calls, in the order of the calls
SmartDoubleQuotes == {"u201C", "u201D", "u201E", "u201F", "u2033", "u2036"}
SmartSingleQuotes == {"u2018", "u2019", "u201A", "u201B", "u2032", "u2035"}
Apostrophes == {"u02BC", "u055A", "u07F4", "u07F5"}
Dashes == {"u2010", "u2011", "u2012", "u2013", "u2014", "u2015"}
SpecialSpaces ==
    {"u00A0", "u1680", "u2000", "u2001", "u2002", "u2003", "u2004", "u2005", "u2006",
     "u2007", "u2008", "u2009", "u200A", "u200B", "u202F", "u205F", "u3000"}
Ellipsis == {"u2026"}
AngleQuotes == {"u00AB", "u00BB", "u2039", "u203A"}
Bullets == {"u2022", "u2023", "u2043", "u204C", "u204D", "u2219"}
ZeroWidth == {"u200B", "u200C", "u200D", "uFEFF"}

RECURSIVE ReplaceClass(_, _, _)
\* s.replace(/[class]/g, rep)
ReplaceClass(s, class, rep) ==
    IF s = <<>> THEN <<>>
    ELSE (IF Head(s) \in class THEN rep ELSE <<Head(s)>>) \o ReplaceClass(Tail(s), class, rep)

RECURSIVE ReplaceCRLF(_)
\* s.replace(/\r\n/g, '\n')
ReplaceCRLF(s) ==
    IF s = <<>> THEN <<>>
    ELSE IF Len(s) >= 2 /\ s[1] = "\r" /\ s[2] = "\n"
    THEN <<"\n">> \o ReplaceCRLF(SubSeq(s, 3, Len(s)))
    ELSE <<Head(s)>> \o ReplaceCRLF(Tail(s))

\* s.replace(/^\uFEFF/, '')
RemoveLeadingBOM(s) == IF s # <<>> /\ Head(s) = "uFEFF" THEN Tail(s) ELSE s

\* normalizeCharacters with the bullets replaced by an en dash
normalizeCharactersBulletsToEnDash(text) ==
    IF text = <<>> THEN text
    ELSE LET t1 == ReplaceClass(text, SmartDoubleQuotes, <<"\"">>)
             t2 == ReplaceClass(t1, SmartSingleQuotes, <<"'">>)
             t3 == ReplaceClass(t2, Apostrophes, <<"'">>)
             t4 == ReplaceClass(t3, Dashes, <<"-">>)
             t5 == ReplaceClass(t4, SpecialSpaces, <<" ">>)
             t6 == ReplaceClass(t5, Ellipsis, <<".", ".", ".">>)
             t7 == ReplaceClass(t6, AngleQuotes, <<"\"">>)
             t8 == ReplaceClass(t7, Bullets, <<"u2013">>)
             t9 == ReplaceClass(t8, ZeroWidth, <<>>)
             t10 == ReplaceCRLF(t9)
             t11 == ReplaceClass(t10, {"\r"}, <<"\n">>)
         IN  RemoveLeadingBOM(t11)

normalizeCharacters(text) ==
    IF text = <<>> THEN text
    ELSE LET t1 == ReplaceClass(text, SmartDoubleQuotes, <<"\"">>)
             t2 == ReplaceClass(t1, SmartSingleQuotes, <<"'">>)
             t3 == ReplaceClass(t2, Apostrophes, <<"'">>)
             t4 == ReplaceClass(t3, Dashes, <<"-">>)
             t5 == ReplaceClass(t4, SpecialSpaces, <<" ">>)
             t6 == ReplaceClass(t5, Ellipsis, <<".", ".", ".">>)
             t7 == ReplaceClass(t6, AngleQuotes, <<"\"">>)
             t8 == ReplaceClass(t7, Bullets, <<"-">>)
             t9 == ReplaceClass(t8, ZeroWidth, <<>>)
             t10 == ReplaceCRLF(t9)
             t11 == ReplaceClass(t10, {"\r"}, <<"\n">>)
         IN  RemoveLeadingBOM(t11)

\* --------------------------------------------------------------------------
\* Specification of normalizeCharacters: a string normalized once and again
\* --------------------------------------------------------------------------
\* one character of every class, a character of two classes (u200B), the
\* line breaks and a letter
NormAlphabet ==
    {"u201C", "u2019", "u02BC", "u2014", "u00A0", "u200B", "u2026", "u00AB", "u2022",
     "u200D", "uFEFF", "\r", "\n", "a"}

NormStrings(n) == UNION {[1..k -> NormAlphabet] : k \in 0..n}

NormInit ==
    /\ inputText \in NormStrings(MaxNormLen)
    /\ normalized = NoText
    /\ renormalized = NoText
    /\ cut = NoText
    /\ extracted = NoText
    /\ RespIdle
    /\ GenIdle
    /\ ModalIdle
    /\ XmlIdle
    /\ TagIdle
    /\ AppIdle

\* one call normalizeCharacters(inputText)
Normalize ==
    /\ normalized = NoText
    /\ normalized' = normalizeCharacters(inputText)
    /\ UNCHANGED <<inputText, renormalized, cut, extracted, otherVars>>

\* one call normalizeCharacters on the result of the first call
NormalizeAgain ==
    /\ normalized # NoText
    /\ renormalized = NoText
    /\ renormalized' = normalizeCharacters(normalized)
    /\ UNCHANGED <<inputText, normalized, cut, extracted, otherVars>>

NormNext == Normalize \/ NormalizeAgain

NormSpec == NormInit /\ [][NormNext]_vars

\* --------------------------------------------------------------------------
\* Text of a document (src/unnamed/part_001)
\* --------------------------------------------------------------------------
\* A document is a sequence of units.  A unit is one character, or a run of
\* characters that the patterns below match or skip as a whole: a phrase
\* ("Validation Rules"), an identifier ("Acct__c"), a run of hashes ("##"),
\* a run of 1500 letters ("x{1500}").

\* text.length of one unit
UnitLen(u) ==
    CASE u = "x{1500}" -> 1500
      [] u \in {"##", "**", "1."} -> 2
      [] u \in {"###", "<fence>"} -> 3
      [] u \in {"####"} -> 4
      [] u \in {"| x |", "Flows"} -> 5
      [] u \in {"Acct__c", "Support", "Testing", "Summary"} -> 7
      [] u \in {"(default)"} -> 9
      [] u \in {"Data Type:", "Deployment"} -> 10
      [] u \in {"Maintenance", "Permissions"} -> 11
      [] u \in {"Field Label:", "Security and", "Page Layouts", "Record Types"} -> 12
      [] u \in {"Apex Triggers", "Mobile Layout", "Related Lists"} -> 13
      [] u \in {"Workflow Rules", "Best Practices"} -> 14
      [] u \in {"Process Builder", "Success Metrics"} -> 15
      [] u \in {"Sharing Settings", "Validation Rules"} -> 16
      [] u \in {"API Name: Acct__c"} -> 17
      [] u \in {"Integration Points", "Training Materials"} -> 18
      [] u \in {"Workflow Automation"} -> 19
      [] u \in {"Key Validation Rules"} -> 20
      [] u \in {"Reports and Dashboards"} -> 22
      [] u \in {"Integration Considerations"} -> 26
      [] u \in {"Lightning Components to Build"} -> 29
      [] OTHER -> 1

RECURSIVE TextLen(_)
\* text.length
TextLen(s) == IF s = <<>> THEN 0 ELSE UnitLen(Head(s)) + TextLen(Tail(s))

\* the characters \s matches and trim() removes
WhiteSpace ==
    {" ", "\t", "\n", "\r", "u00A0", "u1680", "u2000", "u2001", "u2002", "u2003", "u2004",
     "u2005", "u2006", "u2007", "u2008", "u2009", "u200A", "u202F", "u205F", "u3000", "uFEFF"}

RECURSIVE Split(_)
\* text.split('\n')
Split(s) ==
    LET I == {i \in 1..Len(s) : s[i] = "\n"}
    IN  IF I = {} THEN <<s>>
        ELSE LET i == CHOOSE x \in I : \A y \in I : x <= y
             IN  <<SubSeq(s, 1, i - 1)>> \o Split(SubSeq(s, i + 1, Len(s)))

RECURSIVE Join(_, _)
\* lines.join(sep)
Join(ls, sep) ==
    IF ls = <<>> THEN <<>>
    ELSE IF Len(ls) = 1 THEN ls[1]
    ELSE ls[1] \o sep \o Join(Tail(ls), sep)

\* s.trim()
Trim(s) ==
    LET I == {i \in 1..Len(s) : s[i] \notin WhiteSpace}
    IN  IF I = {} THEN <<>>
        ELSE SubSeq(s, CHOOSE x \in I : \A y \in I : x <= y,
                       CHOOSE x \in I : \A y \in I : x >= y)

\* the keywords of cutoffAfterFields and extractFieldSpecifications that the
\* lower-cased text of a unit contains
KeywordsIn(u) ==
    CASE u = "Acct__c" -> {"__c"}
      [] u = "API Name: Acct__c" -> {"api name", "__c"}
      [] u \in {"Validation Rules", "Key Validation Rules"} -> {"validation"}
      [] u \in {"Workflow Rules", "Workflow Automation"} -> {"workflow"}
      [] u = "Reports and Dashboards" -> {"report", "dashboard"}
      [] u = "Page Layouts" -> {"page layout"}
      [] u = "Lightning Components to Build" -> {"lightning component"}
      [] u = "Field Label:" -> {"field label", "field", "label:"}
      [] u = "Data Type:" -> {"data type", "type:"}
      [] OTHER -> {}

\* lowerLine.includes(kw) for some kw of kws
IncludesAny(line, kws) == \E i \in 1..Len(line) : KeywordsIn(line[i]) \cap kws # {}

\* the first index from i on that holds no white space
SkipWs(l, i) ==
    LET J == {j \in i..(Len(l) + 1) : j = Len(l) + 1 \/ l[j] \notin WhiteSpace}
    IN  CHOOSE j \in J : \A k \in J : j <= k

\* the index after the heading prefix  ^hashes\s+\*?\*?  of a trimmed line, 0
\* when the line does not start with it
HeadingBody(l, hashes) ==
    IF Len(l) >= 2 /\ l[1] \in hashes /\ l[2] \in WhiteSpace
    THEN LET b == SkipWs(l, 2)
         IN  IF b <= Len(l) /\ l[b] = "**" THEN b + 1 ELSE b
    ELSE 0

\* --------------------------------------------------------------------------
\* cutoffAfterFields
\* --------------------------------------------------------------------------
\* /^###?\s+\*?\*?\d+\.\s+\w+__c/i
FieldHeader(l) ==
    LET b == HeadingBody(l, {"##", "###"})
    IN  /\ b > 0
        /\ b + 1 <= Len(l)
        /\ l[b] = "1."
        /\ l[b + 1] \in WhiteSpace
        /\ LET c == SkipWs(l, b + 1)
           IN  c <= Len(l) /\ l[c] = "Acct__c"

\* fieldPatterns: /API Name:\s*\w+__c/im, /^Field Label:/im, /Data Type:/im
FieldPattern(l) ==
    \/ \E i \in 1..Len(l) : l[i] = "API Name: Acct__c"
    \/ (l # <<>> /\ l[1] = "Field Label:")
    \/ \E i \in 1..Len(l) : l[i] = "Data Type:"

\* the words that mark a line of a non-field section, first and second loop
NonFieldWords ==
    {"validation", "workflow", "error condition", "error message", "dashboard", "report",
     "page layout", "lightning component"}
NonFieldWordsFallback == {"validation", "workflow", "dashboard", "report"}

\* the phrases of cutoffMarkers: those that may be followed by anything and
\* those that must end the line (\s*$)
MarkersOpen ==
    {"Key Validation Rules", "Workflow Rules", "Process Builder", "Workflow Automation",
     "Apex Triggers", "Lightning Components to Build", "Reports and Dashboards",
     "Integration Points", "Integration Considerations", "Security and", "Sharing Settings",
     "Best Practices", "Success Metrics", "Training Materials", "Maintenance", "Support",
     "Mobile Layout", "Deployment", "Testing"}
MarkersClosed ==
    {"Validation Rules", "Page Layouts", "Record Types", "Flows", "Permissions", "Summary",
     "Related Lists"}

\* cutoffMarkers.some(marker => marker.test(line)) on a trimmed line
CutoffMarker(l) ==
    LET b == HeadingBody(l, {"#", "##", "###"})
    IN  /\ b > 0
        /\ b <= Len(l)
        /\ \/ l[b] \in MarkersOpen
           \/ (l[b] \in MarkersClosed /\ \A k \in (b + 1)..Len(l) : l[k] \in WhiteSpace)

\* the largest element of a set of line numbers, -1 when there is none
LastOf(I) == IF I = {} THEN -1 ELSE CHOOSE i \in I : \A j \in I : i >= j

\* lastFieldLine after both loops; lines are numbered from 0
LastFieldLine(lines) ==
    LET real == {i \in 0..(Len(lines) - 1) :
                    /\ ~IncludesAny(Trim(lines[i + 1]), NonFieldWords)
                    /\ FieldHeader(Trim(lines[i + 1]))}
        other == {i \in 0..(Len(lines) - 1) :
                    /\ ~IncludesAny(Trim(lines[i + 1]), NonFieldWordsFallback)
                    /\ FieldPattern(Trim(lines[i + 1]))}
    IN  IF real # {} THEN LastOf(real) ELSE LastOf(other)

\* cutoffLine after the third loop
CutoffLine(lines) ==
    LET last == LastFieldLine(lines)
        I == {i \in 0..(Len(lines) - 1) :
                /\ ~(last > 0 /\ i <= last + FieldBuffer)
                /\ CutoffMarker(Trim(lines[i + 1]))}
    IN  IF I = {} THEN Len(lines) ELSE CHOOSE i \in I : \A j \in I : i <= j

\* cutoffAfterFields joining the trimmed lines
cutoffAfterFieldsTrimming(text) ==
    LET lines == Split(text)
        cutoffLine == CutoffLine(lines)
    IN  IF cutoffLine < Len(lines)
        THEN Join([i \in 1..cutoffLine |-> Trim(lines[i])], <<"\n">>)
        ELSE text

cutoffAfterFields(text) ==
    LET lines == Split(text)
        cutoffLine == CutoffLine(lines)
    IN  IF cutoffLine < Len(lines)
        THEN Join(SubSeq(lines, 1, cutoffLine), <<"\n">>)
        ELSE text

\* --------------------------------------------------------------------------
\* extractFieldSpecifications
\* --------------------------------------------------------------------------
highValueKeywords ==
    {"field label", "field type", "field name", "api name", "apiname", "lookup", "formula",
     "picklist", "master-detail", "master detail", "help text", "description",
     "relationship", "precision", "scale", "referenceto", "reference to", "data type"}

mediumValueKeywords ==
    {"field", "type:", "label:", "required:", "help:", "values:", "formula:",
     "relationship:", "length:", "default:", "__c", "description:", "external id", "unique"}

\* the words of headerContainsFieldInfo
HeaderKeywords ==
    {"field", "specification", "requirement", "data model", "schema", "__c", "relationship",
     "lookup", "formula", "picklist"}

sectionMarkers == {"##", "###", "**", "####"}

\* sectionMarkers.some(marker => line.trim().startsWith(marker))
IsNewSection(line) == Trim(line) # <<>> /\ Trim(line)[1] \in sectionMarkers

\* the units that hold a colon; "<fence>" stands for the three backquotes of a
\* code fence and "| x |" for a table cell
ColonUnits == {":", "API Name: Acct__c", "Field Label:", "Data Type:"}
BulletChars == {"-", "*", "u2022"}

\* line.match(/^\s*[-*•]\s+.*:/)
BulletWithColon(line) ==
    LET a == SkipWs(line, 1)
    IN  /\ a + 1 <= Len(line)
        /\ line[a] \in BulletChars
        /\ line[a + 1] \in WhiteSpace
        /\ \E k \in (a + 2)..Len(line) : line[k] \in ColonUnits

\* line.match(/^[-*•]\s+(.*)\s*\(default\)/i)
DefaultValueLine(line) ==
    /\ Len(line) >= 3
    /\ line[1] \in BulletChars
    /\ line[2] \in WhiteSpace
    /\ \E k \in 3..Len(line) : line[k] = "(default)"

\* lineScore of a line that opens no section
LineScore(line) ==
    (IF IncludesAny(line, highValueKeywords) THEN 3 ELSE 0)
    + (IF IncludesAny(line, mediumValueKeywords) THEN 2 ELSE 0)
    + (IF BulletWithColon(line) THEN 2 ELSE 0)
    + (IF IncludesAny(line, {"__c"}) THEN 2 ELSE 0)
    + (IF DefaultValueLine(line) THEN 2 ELSE 0)
    + (IF \E i \in 1..Len(line) : line[i] = "| x |" THEN 1 ELSE 0)
    + (IF \E i \in 1..Len(line) : line[i] = "<fence>" THEN 1 ELSE 0)

\* SaveSectionAnyScore saves every section that has lines
SaveSectionAnyScore(st) ==
    IF Len(st.currentSection) > 0
    THEN Append(st.relevantSections, Join(st.currentSection, <<"\n">>))
    ELSE st.relevantSections

\* relevantSections with the previous section saved when it had good content
SaveSection(st) ==
    IF st.sectionScore >= 2 /\ Len(st.currentSection) > 0
    THEN Append(st.relevantSections, Join(st.currentSection, <<"\n">>))
    ELSE st.relevantSections

\* one round of the loop over the lines
ScanLine(line, st) ==
    IF IsNewSection(line)
    THEN LET headerContainsFieldInfo == IncludesAny(line, HeaderKeywords)
         IN  [relevantSections |-> SaveSection(st),
              currentSection |-> <<line>>,
              sectionScore |-> IF headerContainsFieldInfo THEN 3 ELSE 0,
              inHighValueSection |-> headerContainsFieldInfo]
    ELSE LET high == st.inHighValueSection \/ IncludesAny(line, highValueKeywords)
             section == Append(st.currentSection, line)
             score == st.sectionScore + LineScore(line)
             reset == Trim(line) = <<>> /\ ~high /\ score < 1 /\ Len(section) > 3
         IN  [relevantSections |-> st.relevantSections,
              currentSection |-> IF reset THEN <<>> ELSE section,
              sectionScore |-> IF reset THEN 0 ELSE score,
              inHighValueSection |-> high]

RECURSIVE ScanLines(_, _)
\* the loop over the lines
ScanLines(lines, st) ==
    IF lines = <<>> THEN st ELSE ScanLines(Tail(lines), ScanLine(Head(lines), st))

\* relevantSections.join('\n\n').trim()
ExtractSections(text) ==
    LET st == ScanLines(Split(text),
                        [relevantSections |-> <<>>, currentSection |-> <<>>,
                         sectionScore |-> 0, inHighValueSection |-> FALSE])
    IN  Trim(Join(SaveSection(st), <<"\n", "\n">>))

\* the value of `text` at the length check
TextAtLengthCheck(text) == cutoffAfterFields(normalizeCharacters(text))

\* extractFieldSpecifications without the safety check of the extracted length
extractFieldSpecificationsNoFloor(text) ==
    IF text = <<>> \/ Trim(text) = <<>> THEN text
    ELSE LET t == TextAtLengthCheck(text)
         IN  IF TextLen(t) < SmallDocumentLength THEN t
             ELSE ExtractSections(t)

\* extractFieldSpecifications without the early return of a small document
extractFieldSpecificationsNoShortCircuit(text) ==
    IF text = <<>> \/ Trim(text) = <<>> THEN text
    ELSE LET t == TextAtLengthCheck(text)
             ex == ExtractSections(t)
         IN  IF TextLen(ex) < MinExtractedLength THEN t ELSE ex

extractFieldSpecifications(text) ==
    IF text = <<>> \/ Trim(text) = <<>> THEN text
    ELSE LET t == TextAtLengthCheck(text)
         IN  IF TextLen(t) < SmallDocumentLength THEN t
             ELSE LET ex == ExtractSections(t)
                  IN  IF TextLen(ex) < MinExtractedLength THEN t ELSE ex

\* --------------------------------------------------------------------------
\* Specification of the document reduction: cutoffAfterFields and
\* extractFieldSpecifications called on a document
\* --------------------------------------------------------------------------
\* the lines a document of Init is made of
FieldHeaderLine == <<"##", " ", "1.", " ", "Acct__c", "\n">>
TestingLine == <<"##", " ", "Testing", "\n">>
ValidationLine == <<" ", "#", " ", "**", "Validation Rules", " ", "\r", "\n">>
SummaryOfLine == <<"##", " ", "Summary", " ", "x", "\n">>
ApiNameLine == <<"-", " ", "API Name: Acct__c", " ", "(default)", "\n">>
FillerLine == <<"x{1500}", " ", "\n">>
BlankLines == [i \in 1..(FieldBuffer + 1) |-> "\n"]
NotesLines == SummaryOfLine \o FillerLine \o FillerLine \o <<"\n">>
FillerText == <<"x{1500}">>

DocBlocks ==
    {FieldHeaderLine, TestingLine, ValidationLine, SummaryOfLine, ApiNameLine, FillerLine,
     BlankLines, NotesLines, FillerText}

RECURSIVE Docs(_)
\* the documents of at most n blocks
Docs(n) ==
    IF n = 0 THEN {<<>>}
    ELSE LET D == Docs(n - 1)
         IN  D \cup {d \o b : d \in D, b \in DocBlocks}

DocInit ==
    /\ inputText \in Docs(MaxBlocks)
    /\ normalized = NoText
    /\ renormalized = NoText
    /\ cut = NoText
    /\ extracted = NoText
    /\ RespIdle
    /\ GenIdle
    /\ ModalIdle
    /\ XmlIdle
    /\ TagIdle
    /\ AppIdle

\* one call cutoffAfterFields(inputText)
Cutoff ==
    /\ cut = NoText
    /\ extracted = NoText
    /\ cut' = cutoffAfterFields(inputText)
    /\ UNCHANGED <<inputText, normalized, renormalized, extracted, otherVars>>

\* one call extractFieldSpecifications(inputText); normalized and cut record
\* `text` after step 1 and after step 2
Extract ==
    /\ cut = NoText
    /\ extracted = NoText
    /\ extracted' = extractFieldSpecifications(inputText)
    /\ IF inputText = <<>> \/ Trim(inputText) = <<>>
       THEN UNCHANGED <<normalized, cut>>
       ELSE /\ normalized' = normalizeCharacters(inputText)
            /\ cut' = cutoffAfterFields(normalized')
    /\ UNCHANGED <<inputText, renormalized, otherVars>>

DocNext == Cutoff \/ Extract

DocSpec == DocInit /\ [][DocNext]_vars

\* --------------------------------------------------------------------------
\* generateFieldsFromAI: the response of the generation service
\* --------------------------------------------------------------------------
\* An error message is a sequence of units.  "<fence>json" stands for the three
\* backquotes followed by json.

\* the words of the tests error.message.includes(word) that a unit contains
WordsIn(u) ==
    CASE u \in {"fetch", "Failed to fetch"} -> {"fetch"}
      [] u = "NetworkError when attempting to fetch resource." -> {"fetch"}
      [] u = "network" -> {"network"}
      [] u = "parse" -> {"parse"}
      [] u = "AI returned invalid JSON. Please try again with clearer specifications." ->
            {"invalid JSON"}
      [] OTHER -> {}

\* message.includes(word)
MsgIncludes(msg, word) == \E i \in 1..Len(msg) : word \in WordsIn(msg[i])

EmptyInputMsg == <<"Please provide field specification text">>
NoResponseMsg == <<"No response from AI. Please try again.">>
MalformedResponseMsg == <<"AI response did not contain valid JSON structure">>
InvalidStructureMsg == <<"Invalid JSON structure: missing or invalid \"fields\" array">>
InvalidJsonMsg == <<"AI returned invalid JSON. Please try again with clearer specifications.">>
NetworkErrorMsg == <<"Network error: Could not connect to AI service.">>
\* `API request failed with status ${response.status}`
StatusMsg(status) == <<"API request failed with status ", ToString(status)>>

\* a response: fetch rejected with an error of message `reason`, or resolved
\* with a status and a body.  The body of a failure is its `error` attribute
\* (NoMsg when the body is no JSON or has none); the body of a success is the
\* text of the first candidate (NoText when there is none), or no JSON at all
\* and response.json() rejects with an error of message `reason`.
Rejected(reason) ==
    [kind |-> "rejected", ok |-> FALSE, status |-> 0, error |-> NoMsg, text |-> NoText,
     reason |-> reason]
HttpFailure(status, err) ==
    [kind |-> "http", ok |-> FALSE, status |-> status, error |-> err, text |-> NoText,
     reason |-> NoMsg]
HttpSuccess(text) ==
    [kind |-> "http", ok |-> TRUE, status |-> 200, error |-> NoMsg, text |-> text,
     reason |-> NoMsg]
HttpNoJson(reason) ==
    [kind |-> "http", ok |-> TRUE, status |-> 200, error |-> NoMsg, text |-> NoText,
     reason |-> reason]

RECURSIVE RemoveFence(_, _)
\* s.replace(/fence\n?/g, '')
RemoveFence(s, fence) ==
    IF s = <<>> THEN <<>>
    ELSE IF Head(s) = fence
    THEN RemoveFence(SubSeq(s, IF Len(s) >= 2 /\ s[2] = "\n" THEN 3 ELSE 2, Len(s)), fence)
    ELSE <<Head(s)>> \o RemoveFence(Tail(s), fence)

\* generatedText after trim, normalizeCharacters and the removal of the
\* markdown code blocks
StripFences(text) ==
    Trim(RemoveFence(RemoveFence(normalizeCharacters(Trim(text)), "<fence>json"),
                     "<fence>"))

\* s.indexOf(c) and s.lastIndexOf(c); positions are numbered from 0
IndexOf(s, c) ==
    LET I == {i \in 1..Len(s) : s[i] = c}
    IN  IF I = {} THEN -1 ELSE (CHOOSE i \in I : \A j \in I : i <= j) - 1
LastIndexOf(s, c) ==
    LET I == {i \in 1..Len(s) : s[i] = c}
    IN  IF I = {} THEN -1 ELSE (CHOOSE i \in I : \A j \in I : i >= j) - 1

\* s.substring(a, b): the arguments are swapped when a > b
Substring(s, a, b) ==
    LET lo == IF a <= b THEN a ELSE b
        hi == IF a <= b THEN b ELSE a
    IN  SubSeq(s, lo + 1, hi)

\* the members of a JSON object of a response, and the object each makes
JsonMembers == {"\"fields\":[]", "\"fields\":\"x\"", "\"a\":1"}
MemberObject(m) ==
    CASE m = "\"fields\":[]" -> Obj(Arr(<<>>))
      [] m = "\"fields\":\"x\"" -> Obj(S("x"))
      [] OTHER -> Obj(Undef)

\* JSON.parse(text): white space is skipped; the texts of the model that
\* parse are an object of no member or one member, a number and null
JsonParse(text) ==
    LET t == SelectSeq(text, LAMBDA u : u \notin {" ", "\n", "\r", "\t"})
    IN  IF t = <<"{", "}">> THEN [ok |-> TRUE, value |-> Obj(Undef)]
        ELSE IF Len(t) = 3 /\ t[1] = "{" /\ t[2] \in JsonMembers /\ t[3] = "}"
        THEN [ok |-> TRUE, value |-> MemberObject(t[2])]
        ELSE IF t = <<"1">> THEN [ok |-> TRUE, value |-> N(1)]
        ELSE IF t = <<"null">> THEN [ok |-> TRUE, value |-> Null]
        ELSE [ok |-> FALSE, value |-> Undef]

\* what one run of the code after the request ends with
Thrown(msg, parsed) == [failure |-> msg, result |-> NoValue, parserInput |-> parsed]
Returned(value, parsed) == [failure |-> NoMsg, result |-> value, parserInput |-> parsed]

\* the inner try block: JSON.parse, the fields check, and the catch that
\* replaces every error thrown in the block
ParseGenerated(generatedText) ==
    LET parsed == JsonParse(generatedText)
    IN  IF ~parsed.ok THEN Thrown(InvalidJsonMsg, generatedText)
        ELSE IF ThrowsOnRead(parsed.value) THEN Thrown(InvalidJsonMsg, generatedText)
        ELSE IF ~Truthy(FieldsOf(parsed.value)) \/ FieldsOf(parsed.value).t # "arr"
        THEN Thrown(InvalidJsonMsg, generatedText)
        ELSE Returned(parsed.value, generatedText)

\* the outer catch block
Rethrow(out) ==
    IF out.failure # NoMsg
       /\ (MsgIncludes(out.failure, "fetch") \/ MsgIncludes(out.failure, "network"))
    THEN [out EXCEPT !.failure = NetworkErrorMsg]
    ELSE out

\* the outer try block of generateFieldsFromAI on response r
HandleResponse(r) ==
    IF r.kind = "rejected" THEN Thrown(r.reason, NoText)
    ELSE IF ~r.ok
    THEN Thrown(IF r.error # NoMsg /\ r.error # <<>> THEN r.error ELSE StatusMsg(r.status),
                NoText)
    ELSE IF r.reason # NoMsg THEN Thrown(r.reason, NoText)
    ELSE IF r.text = NoText \/ r.text = <<>> THEN Thrown(NoResponseMsg, NoText)
    ELSE LET generatedText == StripFences(r.text)
             firstBrace == IndexOf(generatedText, "{")
             lastBrace == LastIndexOf(generatedText, "}")
         IN  IF firstBrace = -1 \/ lastBrace = -1 THEN Thrown(MalformedResponseMsg, NoText)
             ELSE ParseGenerated(Substring(generatedText, firstBrace, lastBrace + 1))

\* what generateFieldsFromAI ends with once the service has answered with r
AfterResponse(r) == Rethrow(HandleResponse(r))

\* --------------------------------------------------------------------------
\* Specification of the response handling of generateFieldsFromAI
\* --------------------------------------------------------------------------
\* the messages of the errors a rejected fetch carries in different browsers
RejectReasons ==
    {<<"Failed to fetch">>, <<"NetworkError when attempting to fetch resource.">>,
     <<"Load failed">>}
\* the message of the error of response.json() on a body that is no JSON
NoJsonReasons == {<<"Unexpected token < in JSON at position 0">>}
\* error messages of the generation service
ServiceMessages ==
    {<<"Quota exceeded">>, <<"Upstream ", "network", " timeout">>,
     <<"Could not ", "fetch", " model">>, <<"Could not ", "parse", " prompt">>}
Statuses == {429, 500}

\* the pieces a response text of Init is made of
FenceOpen == <<"<fence>json", "\n">>
FenceClose == <<"\n", "<fence>">>
RespParts ==
    {FenceOpen, FenceClose, <<"{">>, <<"}">>} \cup {<<m>> : m \in JsonMembers}

RECURSIVE RespTexts(_)
\* the response texts of at most n pieces
RespTexts(n) ==
    IF n = 0 THEN {<<>>}
    ELSE LET R == RespTexts(n - 1)
         IN  R \cup {r \o p : r \in R, p \in RespParts}

Responses ==
    {Rejected(m) : m \in RejectReasons}
    \cup {HttpFailure(st, e) : st \in Statuses, e \in {NoMsg, <<>>} \cup ServiceMessages}
    \cup {HttpNoJson(m) : m \in NoJsonReasons}
    \cup {HttpSuccess(NoText)}
    \cup {HttpSuccess(t) : t \in RespTexts(MaxParts)}

RespInit ==
    /\ response \in Responses
    /\ parserInput = NoText
    /\ failure = NoMsg
    /\ result = NoValue
    /\ DocIdle
    /\ GenIdle
    /\ ModalIdle
    /\ XmlIdle
    /\ TagIdle
    /\ AppIdle

\* generateFieldsFromAI from the answer of the service to its end
Receive ==
    /\ failure = NoMsg
    /\ result = NoValue
    /\ LET out == AfterResponse(response)
       IN  /\ failure' = out.failure
           /\ result' = out.result
           /\ parserInput' = out.parserInput
    /\ UNCHANGED <<response, docVars, genVars, modalVars, xmlVars, tagVars, appVars>>

RespNext == Receive

RespSpec == RespInit /\ [][RespNext]_vars

\* --------------------------------------------------------------------------
\* ImportModal: handleAiGenerate and handleRetry around generateFieldsFromAI
\* --------------------------------------------------------------------------
\* stage is the position of the running invocation: "normalizing" and
\* "extracting" are the two timers of handleAiGenerate (steps 1 and 2),
\* "awaiting" is the await of fetch, "parsing" the await of response.json().
\* The display-only state (activeMethod, progressDetails, generationStartTime)
\* is left out.  jsonText is written by a successful generation only, so the
\* jsonText of the closure of handleAiGenerate is the current one.

\* !text.trim(), and !inputText || inputText.trim().length === 0
BlankText(text) == text = <<>> \/ Trim(text) = <<>>

ProvideInputMsg == <<"Please provide field specification text or upload a file">>
PartialPrefix == <<"Generation partially completed. ">>
PartialSuffix ==
    <<"\n", "\n", "u2705 Some fields were generated. You can import them below or retry.">>
Suggestions ==
    <<"\n", "\n", "u1F4A1 Suggestions:", "\n", "u2022 Try simplifying your field descriptions",
      "\n", "u2022 Remove special characters", "\n", "u2022 Break into smaller sections">>

\* JSON.stringify(result, null, 2) of the objects generateFieldsFromAI returns
Stringify(value) ==
    IF value = Obj(Arr(<<>>)) THEN <<"{", "\n", "  ", "\"fields\": []", "\n", "}">>
    ELSE <<"{", "}">>

\* the progress line of a success
SuccessProgress(value) ==
    "u2705 Successfully generated " \o ToString(Len(FieldsOf(value).v)) \o " fields!"

\* the catch block of handleAiGenerate on an error of message msg, with json
\* the jsonText of the closure
CatchGeneration(msg, json) ==
    IF json # <<>> /\ TextLen(json) > 0
    THEN [partialResult |-> [json |-> json, error |-> msg],
          error |-> PartialPrefix \o msg \o PartialSuffix]
    ELSE IF MsgIncludes(msg, "invalid JSON") \/ MsgIncludes(msg, "parse")
    THEN [partialResult |-> partialResult, error |-> msg \o Suggestions]
    ELSE [partialResult |-> partialResult, error |-> msg]

\* where an invocation stands once generateFieldsFromAI ended with `out`;
\* StageAfterRetrying runs step 2 again after an error
StageAfterRetrying(out) == IF out.failure # NoMsg THEN "extracting" ELSE "done"
StageAfter(out) == IF out.failure # NoMsg THEN "failed" ELSE "done"

\* handleAiGenerate from the end of generateFieldsFromAI with `out` to its end
EndGeneration(out) ==
    /\ stage' = StageAfter(out)
    /\ failure' = out.failure
    /\ result' = out.result
    /\ parserInput' = out.parserInput
    /\ isGenerating' = FALSE
    /\ IF out.failure # NoMsg
       THEN LET c == CatchGeneration(out.failure, jsonText)
            IN  /\ partialResult' = c.partialResult
                /\ error' = c.error
                /\ generationProgress' = ""
                /\ UNCHANGED <<jsonText, resetTimers>>
       ELSE /\ jsonText' = Stringify(out.result)
            /\ generationProgress' = SuccessProgress(out.result)
            /\ resetTimers' = resetTimers + 1
            /\ UNCHANGED <<partialResult, error>>

\* handleAiGenerate up to its first await; partial is the partialResult at
\* the call
BeginGeneration(partial) ==
    IF BlankText(aiInput)
    THEN /\ error' = ProvideInputMsg
         /\ partialResult' = partial
         /\ UNCHANGED <<inputText, stage, isGenerating, generationProgress>>
    ELSE /\ isGenerating' = TRUE
         /\ error' = <<>>
         /\ partialResult' = Null
         /\ generationProgress' = "Step 1/4: Normalizing text..."
         /\ inputText' = aiInput
         /\ stage' = "normalizing"

\* the texts typed into the AI input box
GenInputs ==
    {<<>>, <<" ", "\n">>, FieldHeaderLine \o ApiNameLine, <<"u201C", "x", "u201D">>}

\* the answers of the generation service
GenResponses ==
    {Rejected(<<"Failed to fetch">>), Rejected(<<"Load failed">>),
     HttpFailure(500, <<"Quota exceeded">>), HttpFailure(429, NoMsg),
     HttpNoJson(<<"Unexpected token < in JSON at position 0">>),
     HttpSuccess(NoText),
     HttpSuccess(FenceOpen \o <<"{", "\"fields\":[]", "}">> \o FenceClose),
     HttpSuccess(<<"{", "\"a\":1", "}">>),
     HttpSuccess(<<"x">>)}

GenInit ==
    /\ AiIdle
    /\ XmlIdle
    /\ TagIdle
    /\ AppIdle

\* onChange of the AI input box
EditInput ==
    /\ \E text \in GenInputs : aiInput' = text
    /\ aiInput' # aiInput
    /\ UNCHANGED <<error, jsonText, isGenerating, partialResult, generationProgress,
                   uploadedFileName, reading, parseCalls, resetTimers,
                   docVars, respVars, genVars, xmlVars, tagVars, appVars>>

\* a click on the Generate button, which is disabled while a generation runs
\* and while the input is blank
Generate ==
    /\ ~isGenerating
    /\ ~BlankText(aiInput)
    /\ started < MaxInvocations
    /\ BeginGeneration(partialResult)
    /\ UNCHANGED <<aiInput, jsonText, uploadedFileName, reading, parseCalls, resetTimers,
                   normalized, renormalized, cut, extracted, respVars, sent, started,
                   xmlVars, tagVars, appVars>>

\* handleRetry: a click on the Retry button of the partial result
Retry ==
    /\ partialResult # Null
    /\ started < MaxInvocations
    /\ BeginGeneration(Null)
    /\ UNCHANGED <<aiInput, jsonText, uploadedFileName, reading, parseCalls, resetTimers,
                   normalized, renormalized, cut, extracted, respVars, sent, started,
                   xmlVars, tagVars, appVars>>

\* the timer of step 1 fires
Step1 ==
    /\ stage = "normalizing"
    /\ stage' = "extracting"
    /\ generationProgress' = "Step 2/4: Analyzing document structure..."
    /\ UNCHANGED <<aiInput, error, jsonText, isGenerating, partialResult, uploadedFileName,
                   reading, parseCalls, resetTimers, docVars, respVars, sent, started,
                   xmlVars, tagVars, appVars>>

\* the timer of step 2 fires: generateFieldsFromAI(aiInput) up to the await of
\* fetch
Step2 ==
    /\ stage = "extracting"
    /\ started' = started + 1
    /\ response' = NoResponse
    /\ IF BlankText(inputText)
       THEN /\ EndGeneration(Thrown(EmptyInputMsg, NoText))
            /\ UNCHANGED <<sent, normalized, cut, extracted>>
       ELSE /\ normalized' = normalizeCharacters(inputText)
            /\ cut' = cutoffAfterFields(normalizeCharacters(normalized'))
            /\ extracted' = extractFieldSpecifications(normalized')
            /\ sent' = sent + 1
            /\ stage' = "awaiting"
            /\ generationProgress' = "Step 3/4: AI is generating fields..."
            /\ parserInput' = NoText
            /\ failure' = NoMsg
            /\ result' = NoValue
            /\ UNCHANGED <<error, jsonText, isGenerating, partialResult, resetTimers>>
    /\ UNCHANGED <<aiInput, uploadedFileName, reading, parseCalls, inputText, renormalized,
                   xmlVars, tagVars, appVars>>

\* fetch settles: rejected, or resolved with the status line of the answer
Respond ==
    /\ stage = "awaiting"
    /\ \E r \in GenResponses : response' = r
    /\ IF response'.kind = "rejected"
       THEN EndGeneration(AfterResponse(response'))
       ELSE /\ stage' = "parsing"
            /\ UNCHANGED <<parserInput, failure, result, error, jsonText, isGenerating,
                           partialResult, generationProgress, resetTimers>>
    /\ UNCHANGED <<aiInput, uploadedFileName, reading, parseCalls, docVars, sent, started,
                   xmlVars, tagVars, appVars>>

\* response.json() settles: generateFieldsFromAI and handleAiGenerate run to
\* their ends
Parse ==
    /\ stage = "parsing"
    /\ EndGeneration(AfterResponse(response))
    /\ UNCHANGED <<aiInput, uploadedFileName, reading, parseCalls, docVars, response, sent,
                   started, xmlVars, tagVars, appVars>>

\* the timer of a success fires
ClearProgress ==
    /\ resetTimers > 0
    /\ resetTimers' = resetTimers - 1
    /\ generationProgress' = ""
    /\ UNCHANGED <<aiInput, error, jsonText, isGenerating, partialResult, uploadedFileName,
                   reading, parseCalls, docVars, respVars, genVars, xmlVars, tagVars, appVars>>

GenNext == EditInput \/ Generate \/ Retry \/ Step1 \/ Step2 \/ Respond \/ Parse \/ ClearProgress

GenSpec == GenInit /\ [][GenNext]_vars

\* --------------------------------------------------------------------------
\* ImportModal: handleAiFileUpload and parseFile
\* --------------------------------------------------------------------------
\* A file name is a sequence of units: "." and pieces without a dot.  A file
\* is a record of its name, its size in bytes and the text a reader gets from
\* it (for a Word document, the raw text mammoth extracts).

\* u.toLowerCase()
Lower(u) ==
    CASE u = "SPEC" -> "spec"
      [] u = "MD" -> "md"
      [] u = "README" -> "readme"
      [] OTHER -> u

\* name.toLowerCase().split('.').pop()
LastPiece(name) ==
    LET D == {i \in 1..Len(name) : name[i] = "."}
        from == IF D = {} THEN 1 ELSE (CHOOSE i \in D : \A j \in D : i >= j) + 1
    IN  [i \in 1..(Len(name) - from + 1) |-> Lower(name[from + i - 1])]

validExtensions == {<<"txt">>, <<"md">>, <<"docx">>, <<"doc">>}

isValidFileType(f) == LastPiece(f.name) \in validExtensions

\* isValidFileSizeUnlimited accepts every size
isValidFileSizeUnlimited(f, maxSizeMB) == f.size >= 0
isValidFileSize(f, maxSizeMB) == f.size <= maxSizeMB * 1024 * 1024

getFileTypeName(f) ==
    CASE LastPiece(f.name) = <<"txt">> -> "Text File"
      [] LastPiece(f.name) = <<"md">> -> "Markdown File"
      [] LastPiece(f.name) \in {<<"docx">>, <<"doc">>} -> "Word Document"
      [] OTHER -> "Unknown File"

\* Math.pow(k, i) of formatFileSize
PowK(i) == IF i = 0 THEN 1 ELSE IF i = 1 THEN 1024 ELSE IF i = 2 THEN 1024 * 1024
           ELSE 1024 * 1024 * 1024

\* formatFileSize(bytes) for bytes below 1024^3: the quotient with two
\* decimals, rounded, without its trailing zeros
formatFileSize(bytes) ==
    IF bytes = 0 THEN "0 Bytes"
    ELSE LET i == CHOOSE x \in 0..2 : PowK(x) <= bytes /\ bytes < PowK(x + 1)
             h == (bytes \div PowK(i)) * 100
                    + ((bytes % PowK(i)) * 200 + PowK(i)) \div (2 * PowK(i))
             whole == ToString(h \div 100)
             frac == h % 100
             number == IF frac = 0 THEN whole
                       ELSE IF frac % 10 = 0 THEN whole \o "." \o ToString(frac \div 10)
                       ELSE IF frac < 10 THEN whole \o ".0" \o ToString(frac)
                       ELSE whole \o "." \o ToString(frac)
         IN  number \o " " \o <<"Bytes", "KB", "MB", "GB">>[i + 1]

UnsupportedTypeMsg == <<"Unsupported file type. Please upload .txt, .md, or .docx files.">>
TooLargeMsg(f) ==
    <<"File is too large (", formatFileSize(f.size), "). Maximum size is 10MB.">>
ParseUnsupportedMsg(f) ==
    <<"Unsupported file type: .">> \o LastPiece(f.name)
        \o <<". Please use .txt, .md, or .docx files.">>
EmptyFileMsg == <<"File appears to be empty">>
ReadFailedMsg == <<"Failed to read file">>
NoDocxSupportMsg == <<"DOCX support is not available. Please use .txt or .md files.">>
NoWordTextMsg == <<"No text content found in Word document">>
WordReadFailedMsg == <<"Failed to read Word document">>
ExtractFailedMsg == <<"Failed to extract text: ", "Could not find file in options">>
\* the error of the catch block of parseFile
FailedToParse(f, msg) == <<"Failed to parse ", getFileTypeName(f), ": ">> \o msg

\* what the reader, the import of mammoth and mammoth can end with
ReadOutcomes == {"load", "error", "no mammoth", "mammoth error"}

\* parseTextFile(f) and parseDocxFile(f) with outcome o: the text they resolve
\* with, or the message of the error they reject with
ParseTextFile(f, o) ==
    IF o = "error" THEN [ok |-> FALSE, text |-> NoText, msg |-> ReadFailedMsg]
    ELSE IF BlankText(f.content) THEN [ok |-> FALSE, text |-> NoText, msg |-> EmptyFileMsg]
    ELSE [ok |-> TRUE, text |-> f.content, msg |-> NoMsg]
ParseDocxFile(f, o) ==
    IF o = "no mammoth" THEN [ok |-> FALSE, text |-> NoText, msg |-> NoDocxSupportMsg]
    ELSE IF o = "error" THEN [ok |-> FALSE, text |-> NoText, msg |-> WordReadFailedMsg]
    ELSE IF o = "mammoth error" THEN [ok |-> FALSE, text |-> NoText, msg |-> ExtractFailedMsg]
    ELSE IF BlankText(f.content) THEN [ok |-> FALSE, text |-> NoText, msg |-> NoWordTextMsg]
    ELSE [ok |-> TRUE, text |-> f.content, msg |-> NoMsg]

\* the try block of parseFile(f) and its catch
ParseRead(f, o) ==
    LET r == IF LastPiece(f.name) \in {<<"txt">>, <<"md">>} THEN ParseTextFile(f, o)
             ELSE ParseDocxFile(f, o)
    IN  IF r.ok THEN r ELSE [r EXCEPT !.msg = FailedToParse(f, r.msg)]

\* the files of the model
FileOf(name, size, content) == [name |-> name, size |-> size, content |-> content]
SpecText == FieldHeaderLine \o ApiNameLine
UploadFiles ==
    {FileOf(<<"spec", ".", "txt">>, 2048, SpecText),
     FileOf(<<"SPEC", ".", "MD">>, MaxSizeMB * 1024 * 1024, <<"u201C", "x", "u201D">>),
     FileOf(<<"notes", ".", "docx">>, 2048, SpecText),
     FileOf(<<"old", ".", "doc">>, 0, <<>>),
     FileOf(<<"blank", ".", "txt">>, 2, <<" ", "\n">>),
     FileOf(<<"md">>, 2048, <<"x">>),
     FileOf(<<"scan", ".", "pdf">>, 2048, <<"x">>),
     FileOf(<<"archive", ".", "txt", ".", "gz">>, 2048, <<"x">>),
     FileOf(<<"README">>, 2048, <<"x">>),
     FileOf(<<"spec", ".">>, 2048, <<"x">>),
     FileOf(<<"big", ".", "txt">>, MaxSizeMB * 1024 * 1024 + 1, SpecText),
     FileOf(<<"film", ".", "docx">>, 31 * 512 * 1024, SpecText),
     FileOf(<<"disk", ".", "iso">>, MaxSizeMB * 1024 * 1024 + 1, <<"x">>)}

UploadInit ==
    /\ AiIdle
    /\ XmlIdle
    /\ TagIdle
    /\ AppIdle

\* handleAiFileUpload on the file f of the event (NoFile when the list of
\* files is empty) up to the await of the read of parseFile
handleAiFileUpload(f) ==
    /\ IF f = NoFile
       THEN UNCHANGED <<error, generationProgress, uploadedFileName, reading, parseCalls>>
       ELSE IF ~isValidFileType(f)
       THEN /\ error' = UnsupportedTypeMsg
            /\ generationProgress' = ""
            /\ UNCHANGED <<uploadedFileName, reading, parseCalls>>
       ELSE IF ~isValidFileSize(f, MaxSizeMB)
       THEN /\ error' = TooLargeMsg(f)
            /\ generationProgress' = ""
            /\ UNCHANGED <<uploadedFileName, reading, parseCalls>>
       ELSE /\ parseCalls' = parseCalls + 1
            /\ IF ~isValidFileType(f) \/ ~isValidFileSize(f, MaxSizeMB)
               THEN /\ error' = IF ~isValidFileType(f) THEN ParseUnsupportedMsg(f)
                                ELSE TooLargeMsg(f)
                    /\ generationProgress' = ""
                    /\ uploadedFileName' = <<>>
                    /\ UNCHANGED reading
               ELSE /\ error' = <<>>
                    /\ generationProgress' = "Reading " \o getFileTypeName(f) \o "..."
                    /\ uploadedFileName' = f.name
                    /\ reading' = reading \cup {f}
    /\ UNCHANGED <<aiInput, jsonText, isGenerating, partialResult, resetTimers,
                   docVars, respVars, genVars, xmlVars, tagVars, appVars>>

\* a file is chosen in the file input of the AI tab
Upload ==
    /\ parseCalls < MaxUploads
    /\ \E f \in UploadFiles \cup {NoFile} : handleAiFileUpload(f)

\* the read of a file ends: parseFile and handleAiFileUpload run to their ends
FileRead ==
    \E f \in reading, o \in ReadOutcomes :
        LET r == ParseRead(f, o)
        IN  /\ reading' = reading \ {f}
            /\ generationProgress' = ""
            /\ IF r.ok
               THEN /\ aiInput' = r.text
                    /\ uploadedFileName' = f.name
                    /\ UNCHANGED error
               ELSE /\ error' = r.msg
                    /\ uploadedFileName' = <<>>
                    /\ UNCHANGED aiInput
            /\ UNCHANGED <<jsonText, isGenerating, partialResult, parseCalls, resetTimers,
                           docVars, respVars, genVars, xmlVars, tagVars, appVars>>

UploadNext == Upload \/ FileRead

UploadSpec == UploadInit /\ [][UploadNext]_vars

\* --------------------------------------------------------------------------
\* Properties of the XML compiler (checked under XmlSpec)
\* --------------------------------------------------------------------------
Compiled == xml # NoXml

\* the lines of the document that carry tag `name`
LinesNamed(doc, name) == {i \in 1..Len(doc) : doc[i].name = name}

\* the types a type-conditional tag applies to; precision and scale apply to
\* Formula only with a numeric returnType
TagApplies(name, f) ==
    CASE name = "length" ->
            TypeIn(f, {"Text", "Email", "Phone", "Url", "TextArea", "LongTextArea", "RichTextArea"})
      [] name = "visibleLines" ->
            TypeIn(f, {"TextArea", "LongTextArea", "RichTextArea", "MultiselectPicklist"})
      [] name \in {"precision", "scale"} ->
            \/ TypeIn(f, {"Number", "Currency", "Percent"})
            \/ (TypeIn(f, {"Formula"}) /\ f.returnType \in {S("Number"), S("Currency"), S("Percent")})
      [] name = "defaultValue" -> TypeIn(f, {"Checkbox"})
      [] name = "deleteConstraint" -> TypeIn(f, {"Lookup"})
      [] name \in {"referenceTo", "relationshipLabel", "relationshipName"} ->
            TypeIn(f, {"Lookup", "MasterDetail"})
      [] name \in {"relationshipOrder", "reparentableMasterDetail", "writeRequiresMasterRead"} ->
            TypeIn(f, {"MasterDetail"})
      [] name \in {"formula", "formulaTreatBlanksAs"} -> TypeIn(f, {"Formula"})
      [] name \in {"valueSet", "valueSetDefinition", "sorted", "value", "default", "restricted"} ->
            TypeIn(f, {"Picklist", "MultiselectPicklist"})
      [] OTHER -> TRUE

\* C1: type isolation.  Every type-conditional tag of a compiled document
\* belongs to an attribute that applies to the field's current type, whatever
\* stale attribute values the field object holds.
C1_TypeIsolation ==
    Compiled => \A i \in 1..Len(xml) : TagApplies(xml[i].name, field)

\* C1 witness: a Formula field holding a stale referenceTo has been compiled.
C1_Witness ==
    /\ Compiled
    /\ field.type = S("Formula")
    /\ field.referenceTo = S("Account")
    /\ LinesNamed(xml, "referenceTo") = {}

\* C2: no element of a compiled document has an empty body.
C2_NoEmptyBody ==
    Compiled => \A i \in 1..Len(xml) : xml[i].kind = "elem" => xml[i].body # <<>>

\* the child elements of the root, in document order
Children(doc) == SelectSeq(doc, LAMBDA l : l.indent = 4 /\ l.kind \in {"elem", "open"})

\* the names of a sequence of lines
Names(ls) == [i \in 1..Len(ls) |-> ls[i].name]

\* the inclusion table's order of the child elements
TableOrder ==
    <<"fullName", "defaultValue", "deleteConstraint", "externalId", "formula",
      "formulaTreatBlanksAs", "inlineHelpText", "label", "length", "visibleLines",
      "precision", "referenceTo", "relationshipLabel", "relationshipName",
      "relationshipOrder", "reparentableMasterDetail", "required", "scale",
      "trackHistory", "type", "unique", "valueSet", "visibleLines",
      "writeRequiresMasterRead">>

RECURSIVE IsSubseq(_, _)
\* s is t with some elements left out
IsSubseq(s, t) ==
    IF s = <<>> THEN TRUE
    ELSE IF t = <<>> THEN FALSE
    ELSE IF Head(s) = Head(t) THEN IsSubseq(Tail(s), Tail(t))
    ELSE IsSubseq(s, Tail(t))

\* C3: a compiled document is the declaration line, the root open line, child
\* elements and the close line, and its child elements appear in the relative
\* order of the inclusion table.
C3_DocumentOrder ==
    Compiled =>
        /\ Len(xml) >= 3
        /\ xml[1] = XML_HEADER
        /\ xml[2] = Open("CustomField", 0)
        /\ xml[Len(xml)] = Close("CustomField", 0)
        /\ \A i \in 3..(Len(xml) - 1) : xml[i].indent >= 4 /\ xml[i].kind # "decl"
        /\ IsSubseq(Names(Children(xml)), TableOrder)

\* C3 witness: a compiled document with optional children before and after
\* the always-present ones.
C3_Witness ==
    /\ Compiled
    /\ LinesNamed(xml, "externalId") # {}
    /\ LinesNamed(xml, "unique") # {}
    /\ Len(Children(xml)) >= 7

\* C4: the first child element is fullName carrying the escaped apiName, and
\* a label element is present, for every FieldSpec whose apiName and label are
\* strings.
C4_FullNameFirstLabelPresent ==
    (Compiled /\ field.apiName.t = "str" /\ field.label.t = "str") =>
        /\ xml[3] = Elem("fullName", 4, escapeXml(field.apiName))
        /\ \E i \in 1..Len(xml) : xml[i].name = "label" /\ xml[i].indent = 4

Nth(I, k) == CHOOSE i \in I : Cardinality({j \in I : j < i}) = k - 1

\* the picklist values of a field object, none when the attribute is unset
PvsOf(f) == IF f.picklistValues.t = "arr" THEN f.picklistValues.v ELSE <<>>

\* lines i..j of the document hold an element `name` of body `body`
HasElem(doc, i, j, name, body) ==
    \E m \in i..j : doc[m].kind = "elem" /\ doc[m].name = name /\ doc[m].body = body

\* C7: a Picklist or MultiselectPicklist document holds one valueSet block with
\* one value element per picklist value, in the order of picklistValues, each
\* label falling back to the fullName when unset, and restricted 'true' unless
\* restricted is exactly false; no other type emits a valueSet block.
C7_ValueSet ==
    Compiled =>
        LET opens == {i \in 1..Len(xml) : xml[i] = Open("value", 12)}
            closes == {i \in 1..Len(xml) : xml[i] = Close("value", 12)}
            vsOpen == {i \in 1..Len(xml) : xml[i] = Open("valueSet", 4)}
            vsClose == {i \in 1..Len(xml) : xml[i] = Close("valueSet", 4)}
            pvs == PvsOf(field)
        IN  IF TypeIn(field, {"Picklist", "MultiselectPicklist"})
            THEN /\ Cardinality(vsOpen) = 1
                 /\ Cardinality(vsClose) = 1
                 /\ Cardinality(opens) = Len(pvs)
                 /\ Cardinality(closes) = Len(pvs)
                 /\ \A i \in opens \cup closes :
                        \A a \in vsOpen, b \in vsClose : a < i /\ i < b
                 /\ \A k \in 1..Len(pvs) :
                        LET i == Nth(opens, k)
                            j == Nth(closes, k)
                        IN  /\ i < j
                            /\ k < Len(pvs) => j < Nth(opens, k + 1)
                            /\ HasElem(xml, i, j, "fullName", escapeXml(pvs[k].fullName))
                            /\ pvs[k].label = Undef =>
                                   HasElem(xml, i, j, "label", escapeXml(pvs[k].fullName))
                            /\ Truthy(pvs[k].label) =>
                                   HasElem(xml, i, j, "label", escapeXml(pvs[k].label))
                 /\ \A a \in vsOpen, b \in vsClose :
                        HasElem(xml, a, b, "restricted",
                                IF field.restricted = B(FALSE) THEN <<"false">> ELSE <<"true">>)
                 /\ Cardinality(LinesNamed(xml, "restricted")) = 1
            ELSE LinesNamed(xml, "valueSet") \cup LinesNamed(xml, "value")
                    \cup LinesNamed(xml, "restricted") = {}

\* C7 witness: a picklist field with three values, one of them without a
\* label, has been compiled.
C7_Witness ==
    /\ Compiled
    /\ TypeIn(field, {"Picklist", "MultiselectPicklist"})
    /\ field.picklistValues = Arr(<<PvC, PvD, PvA>>)
    /\ Cardinality({i \in 1..Len(xml) : xml[i] = Open("value", 12)}) = 3

\* C8: a Lookup field with required = true and deleteConstraint = SetNull
\* compiles to a document carrying deleteConstraint SetNull and required true.
C8_LookupVerbatim ==
    (/\ Compiled
     /\ field.type = S("Lookup")
     /\ field.required = B(TRUE)
     /\ field.deleteConstraint = S("SetNull")) =>
        /\ HasElem(xml, 1, Len(xml), "deleteConstraint", <<"SetNull">>)
        /\ HasElem(xml, 1, Len(xml), "required", <<"true">>)
        /\ Cardinality(LinesNamed(xml, "deleteConstraint")) = 1
        /\ Cardinality(LinesNamed(xml, "required")) = 1

\* C8 witness: such a Lookup field has been compiled.
C8_Witness ==
    /\ Compiled
    /\ field.type = S("Lookup")
    /\ field.required = B(TRUE)
    /\ field.deleteConstraint = S("SetNull")

\* --------------------------------------------------------------------------
\* Properties of escapeXml and buildTag (checked under TagSpec)
\* --------------------------------------------------------------------------
\* the five entities and the characters they stand for
Entities == {AmpEntity, LtEntity, GtEntity, QuotEntity, AposEntity}

EntityChar(e) ==
    CASE e = AmpEntity -> "&"
      [] e = LtEntity -> "<"
      [] e = GtEntity -> ">"
      [] e = QuotEntity -> "\""
      [] e = AposEntity -> "'"

\* entity e starts at position i of b
EntityAt(b, i, e) == i + Len(e) - 1 <= Len(b) /\ SubSeq(b, i, i + Len(e) - 1) = e

RECURSIVE Unescape(_)
\* b with every entity replaced by its character, read left to right
Unescape(b) ==
    IF b = <<>> THEN <<>>
    ELSE IF \E e \in Entities : EntityAt(b, 1, e)
    THEN LET e == CHOOSE x \in Entities : EntityAt(b, 1, x)
         IN  <<EntityChar(e)>> \o Unescape(SubSeq(b, Len(e) + 1, Len(b)))
    ELSE <<Head(b)>> \o Unescape(Tail(b))

\* C6: the body buildTag writes for a non-empty string holds no raw < > " ',
\* every & in it begins one of the five entities, and replacing the entities
\* back yields the original string.
C6_Escaping ==
    (tagLine # NoTag /\ tagValue # <<>>) =>
        /\ tagLine.kind = "elem"
        /\ \A i \in 1..Len(tagLine.body) :
              /\ tagLine.body[i] \notin {"<", ">", "\"", "'"}
              /\ tagLine.body[i] = "&" => \E e \in Entities : EntityAt(tagLine.body, i, e)
        /\ Unescape(tagLine.body) = tagValue

\* C6 witness: a string that already spells an entity has been escaped once.
C6_Witness ==
    /\ tagValue = <<"&", "l", "t", ";">>
    /\ tagLine = Elem("label", 4, <<"&", "a", "m", "p", ";", "l", "t", ";">>)

\* --------------------------------------------------------------------------
\* Properties of the editor (checked under EditorSpec)
\* --------------------------------------------------------------------------
\* a Lookup field with required = true and deleteConstraint = SetNull
LookupConflict(f) ==
    f.type = S("Lookup") /\ f.required = B(TRUE) /\ f.deleteConstraint = S("SetNull")

\* C9: after any sequence of handleChange edits of a field that starts without
\* the conflict, no Lookup field has required = true together with
\* deleteConstraint = SetNull.
C9_NoLookupConflict == \A i \in 1..Len(fields) : ~LookupConflict(fields[i])

\* --------------------------------------------------------------------------
\* Properties of App (checked under AppSpec)
\* --------------------------------------------------------------------------
\* the payload is not parseable JSON, or parses to a value without a `fields`
\* attribute that is a list, or holds an entry whose mapping fails
C10_Rejected(p) ==
    \/ p.text /\ ~p.parses
    \/ p.data \in {Null, Undef}
    \/ p.data.t # "obj"
    \/ p.data.v.t # "arr"
    \/ \E i \in 1..Len(p.data.v.v) : p.data.v.v[i] = Null

\* the rejected payloads among those handed to handleImportJSON
C10_RejectedPayloads == {p \in Payloads : C10_Rejected(p)}

\* C10: import is all-or-nothing.  A handleImportJSON call on a rejected
\* payload leaves the field list and the selected field as they were: no step
\* that changes either of them is a step of such a call.
C10_ImportAllOrNothing ==
    [][(fields' # fields \/ selectedId' # selectedId) =>
          \A p \in C10_RejectedPayloads : ~handleImportJSON(p)]_vars

\* C10 witness: an import has just been rejected while the list held two
\* fields, the second of them selected.
C10_Witness ==
    /\ alertMsg # ""
    /\ Len(fields) = 2
    /\ selectedId = fields[2].id

\* the apiName values of the fields of the list
ApiNames(fs) == [i \in 1..Len(fs) |-> fs[i].apiName]

\* C11: after any sequence of add-field, edit, delete and import operations,
\* no two fields of the in-memory list share an apiName.
C11_UniqueApiNames ==
    \A i, j \in 1..Len(fields) : ApiNames(fields)[i] = ApiNames(fields)[j] => i = j

\* --------------------------------------------------------------------------
\* Properties of normalizeCharacters (checked under NormSpec)
\* --------------------------------------------------------------------------
\* the characters the replace calls look for
SubstitutionSources ==
    SmartDoubleQuotes \cup SmartSingleQuotes \cup Apostrophes \cup Dashes \cup SpecialSpaces
    \cup Ellipsis \cup AngleQuotes \cup Bullets \cup ZeroWidth

\* C12: normalizeCharacters returns a string for every string, the string it
\* returns holds no character of a substitution source set and no carriage
\* return, and normalizing that string again returns it unchanged.
C12_NormalizeIdempotent ==
    /\ normalized # NoText =>
          /\ normalized \in Seq(NormAlphabet \cup {"\"", "'", "-", " ", "."})
          /\ \A i \in 1..Len(normalized) :
                normalized[i] \notin SubstitutionSources \cup {"\r"}
    /\ renormalized # NoText => renormalized = normalized

\* C12 witness: a string with a bullet, an ellipsis and a Windows line break
\* has been normalized twice.
C12_Witness ==
    /\ inputText = <<"u2022", "u2026", "\r">>
    /\ normalized = <<"-", ".", ".", ".", "\n">>
    /\ renormalized = normalized

\* --------------------------------------------------------------------------
\* Properties of the document reduction (checked under DocSpec)
\* --------------------------------------------------------------------------
\* p is the first Len(p) units of s
IsPrefix(p, s) == Len(p) <= Len(s) /\ SubSeq(s, 1, Len(p)) = p

\* the text the latest cutoffAfterFields call was given: inputText when Cutoff
\* called it, the normalized text when Extract called it
CutoffInput == IF extracted = NoText THEN inputText ELSE normalized

\* C13: cutoffAfterFields returns a prefix of its input for every text; the
\* result is never longer than the input.
C13_CutoffPrefix ==
    cut # NoText =>
        /\ IsPrefix(cut, CutoffInput)
        /\ TextLen(cut) <= TextLen(CutoffInput)

\* C13 witness: a document with a field header on its second line, sixteen
\* blank lines and a Testing heading has been cut in front of the heading.
C13_Witness ==
    /\ inputText = FillerLine \o FieldHeaderLine \o BlankLines \o TestingLine
    /\ extracted = NoText
    /\ cut = FillerLine \o FieldHeaderLine \o SubSeq(BlankLines, 1, FieldBuffer)

\* C14 as stated: the result of extractFieldSpecifications has length at least
\* 100 or equals the input.
C14_SafetyValveAsStated ==
    extracted # NoText =>
        TextLen(extracted) >= MinExtractedLength \/ extracted = inputText

\* C14: the result of extractFieldSpecifications(s) has length at least 100,
\* or is the normalized and cut text cutoffAfterFields(normalizeCharacters(s)),
\* or is s itself.
C14_SafetyValve ==
    extracted # NoText =>
        \/ TextLen(extracted) >= MinExtractedLength
        \/ extracted = cutoffAfterFields(normalizeCharacters(inputText))
        \/ extracted = inputText

\* C14 witness: a document of at least 3000 characters whose extraction is
\* shorter than 100 characters has been returned whole after normalization.
C14_Witness ==
    /\ extracted # NoText
    /\ cut # NoText
    /\ TextLen(cut) >= SmallDocumentLength
    /\ TextLen(ExtractSections(cut)) < MinExtractedLength
    /\ extracted = cut
    /\ extracted # inputText

\* C15: when the normalized and cut text that reaches the length check is
\* shorter than 3000 characters, extractFieldSpecifications returns it
\* unchanged.
C15_ShortCircuit ==
    (extracted # NoText /\ cut # NoText /\ TextLen(cut) < SmallDocumentLength) =>
        extracted = cut

\* C15 witness: a document of 100 to 2999 characters, one section of which
\* the scoring would drop, has been returned whole.
C15_Witness ==
    /\ extracted # NoText
    /\ cut # NoText
    /\ TextLen(cut) < SmallDocumentLength
    /\ TextLen(ExtractSections(cut)) >= MinExtractedLength
    /\ ExtractSections(cut) # cut
    /\ extracted = cut

\* --------------------------------------------------------------------------
\* Properties of the response handling (checked under RespSpec)
\* --------------------------------------------------------------------------
\* generateFieldsFromAI has ended
Received == failure # NoMsg \/ result # NoValue

\* the service answered with a success status and a text
HasText == response.kind = "http" /\ response.ok /\ response.text \notin {NoText, <<>>}

\* C16: after the code-fence markers are removed, the text handed to the JSON
\* parser is exactly the substring from the first { to the last } inclusive;
\* if the text has no { or no }, the invocation fails with the
\* MalformedResponse error and nothing is parsed.
C16_BraceSlicing ==
    (Received /\ HasText) =>
        LET g == StripFences(response.text)
            Opens == {i \in 1..Len(g) : g[i] = "{"}
            Closes == {i \in 1..Len(g) : g[i] = "}"}
        IN  IF Opens = {} \/ Closes = {}
            THEN failure = MalformedResponseMsg /\ parserInput = NoText
            ELSE /\ parserInput # NoText
                 /\ parserInput # <<>>
                 /\ parserInput[1] = "{"
                 /\ parserInput[Len(parserInput)] = "}"
                 /\ \A i \in Opens, j \in Closes :
                       ((\A k \in Opens : i <= k) /\ (\A k \in Closes : j >= k)) =>
                           parserInput = SubSeq(g, i, j)

\* the sliced response parsed as JSON to a value without a fields list
ParsedWithoutFieldsList ==
    /\ parserInput # NoText
    /\ JsonParse(parserInput).ok
    /\ LET v == JsonParse(parserInput).value
       IN  v.t # "obj" \/ v.v.t # "arr"

\* the sliced response did not parse as JSON
ParseError == parserInput # NoText /\ ~JsonParse(parserInput).ok

\* C17: when the sliced response parses as JSON to a value without a fields
\* list, generateFieldsFromAI fails with a message that is not the message of
\* the failure raised on a parse error.
C17_StructureFailureDistinct ==
    (Received /\ ParsedWithoutFieldsList) =>
        /\ failure # NoMsg
        /\ failure # InvalidJsonMsg

\* C18: a non-success status with an error message makes generateFieldsFromAI
\* fail with exactly that message, and with the generic status message when
\* no message is supplied.
C18_ServiceMessagePassThrough ==
    (Received /\ response.kind = "http" /\ ~response.ok) =>
        failure = IF response.error \notin {NoMsg, <<>>}
                  THEN response.error ELSE StatusMsg(response.status)

\* --------------------------------------------------------------------------
\* Properties of a generation invocation (checked under GenSpec)
\* --------------------------------------------------------------------------
\* the steps of the state machine of one invocation, and the steps that begin
\* a new invocation after the end of the one before
StageEdges ==
    {<<"idle", "normalizing">>, <<"normalizing", "extracting">>,
     <<"extracting", "awaiting">>, <<"extracting", "failed">>,
     <<"awaiting", "parsing">>, <<"awaiting", "failed">>,
     <<"parsing", "done">>, <<"parsing", "failed">>,
     <<"done", "normalizing">>, <<"failed", "normalizing">>}

\* C19: an invocation moves idle -> normalizing -> extracting -> awaiting ->
\* parsing -> done or failed.  A request is sent only in the step from
\* extracting to awaiting, one at a time, and never for a blank input; there
\* are never more requests than generateFieldsFromAI calls; a step into failed
\* sends nothing and ends the generation with an error on display; and an
\* invocation that ended moves again only by a call of handleAiGenerate on a
\* non-blank input (a click on Generate or Retry).
C19_OneRequestPerInvocation ==
    [][/\ stage' # stage => <<stage, stage'>> \in StageEdges
       /\ sent' # sent =>
            /\ sent' = sent + 1
            /\ stage = "extracting" /\ stage' = "awaiting"
            /\ ~BlankText(inputText)
       /\ sent' <= started'
       /\ (stage' = "failed" /\ stage # "failed") =>
            sent' = sent /\ ~isGenerating' /\ error' # <<>>
       /\ (stage \in {"idle", "done", "failed"} /\ stage' # stage) =>
            /\ stage' = "normalizing" /\ sent' = sent
            /\ ~BlankText(aiInput)
            /\ Generate \/ Retry]_vars

\* two invocations that each sent its one request and failed
C19_Witness ==
    /\ stage = "failed"
    /\ started = 2
    /\ sent = 2
    /\ error # <<>>
    /\ ~isGenerating

\* --------------------------------------------------------------------------
\* Properties of the upload of an AI-input document (checked under UploadSpec)
\* --------------------------------------------------------------------------
\* the extension of a file name: what follows its last dot, in lower case;
\* a name without a dot has none
NameExtension(name) ==
    IF \E i \in 1..Len(name) : name[i] = "." THEN LastPiece(name) ELSE <<>>

\* a step that rejects an upload: an error is on display, no parseFile call
\* and no read began, and the texts are the ones of before
UploadRejected ==
    /\ error' # <<>>
    /\ parseCalls' = parseCalls
    /\ reading' = reading
    /\ aiInput' = aiInput
    /\ UNCHANGED docVars

\* C20 as stated: an upload of a file whose extension is not an accepted one
\* or whose size exceeds 10 MB is rejected, with an error on display, no
\* parseFile call and aiInput unchanged.
C20_UploadRejectedAsStated ==
    [][\A f \in UploadFiles :
          (/\ \/ NameExtension(f.name) \notin validExtensions
              \/ f.size > MaxSizeMB * 1024 * 1024
           /\ handleAiFileUpload(f))
          => UploadRejected]_vars

\* C20: an upload of a file is rejected, with an error on display, no
\* parseFile call and aiInput unchanged, when the size of the file exceeds
\* 10 MB or when the last dot-separated piece of its name in lower case (the
\* whole name when it has no dot) is none of txt, md, docx and doc.
C20_UploadRejected ==
    [][\A f \in UploadFiles :
          (/\ \/ LastPiece(f.name) \notin validExtensions
              \/ f.size > MaxSizeMB * 1024 * 1024
           /\ handleAiFileUpload(f))
          => UploadRejected]_vars

\* a rejected upload after the text of an accepted one was loaded
C20_Witness ==
    /\ error \in {UnsupportedTypeMsg} \cup {TooLargeMsg(f) : f \in UploadFiles}
    /\ aiInput = SpecText
    /\ parseCalls = 1
    /\ reading = {}

\* --------------------------------------------------------------------------
\* Properties of the cutoff and of the extractor (checked under DocSpec)
\* --------------------------------------------------------------------------
\* the first n lines of a text, or all of them when it has fewer
FirstLines(text, n) ==
    LET lines == Split(text)
    IN  SubSeq(lines, 1, IF n <= Len(lines) THEN n ELSE Len(lines))

\* C21: when cutoffAfterFields found a field marker at line L >= 0 of its
\* input, its output keeps the lines 0..L+15 of the input, or all of them
\* when the input is shorter.
C21_GraceBuffer ==
    cut # NoText =>
        LET last == LastFieldLine(Split(CutoffInput))
        IN  last >= 0 =>
                FirstLines(cut, last + FieldBuffer + 1)
                    = FirstLines(CutoffInput, last + FieldBuffer + 1)

\* the lines of a text after the grace buffer that match a cutoff marker: the
\* buffer ends FieldBuffer lines after the last field marker, and there is
\* none when the text has no field marker
HeadingsAfterBuffer(text) ==
    LET lines == Split(text)
        last == LastFieldLine(lines)
        start == IF last >= 0 THEN last + FieldBuffer + 1 ELSE 0
    IN  {i \in start..(Len(lines) - 1) : CutoffMarker(Trim(lines[i + 1]))}

\* C22: cutoffAfterFields returns the lines before the first line after the
\* grace buffer that matches a cutoff marker, joined by line feeds, and its
\* input unchanged when there is no such line; without a field marker the
\* scan starts at line 0.
C22_TruncationPoint ==
    cut # NoText =>
        LET I == HeadingsAfterBuffer(CutoffInput)
        IN  IF I = {} THEN cut = CutoffInput
            ELSE LET first == CHOOSE i \in I : \A j \in I : i <= j
                 IN  cut = Join(SubSeq(Split(CutoffInput), 1, first), <<"\n">>)

\* --------------------------------------------------------------------------
\* Zero-width characters in normalizeCharacters (checked under NormSpec)
\* --------------------------------------------------------------------------
\* the zero-width characters U+200B, U+200C, U+200D and the BOM U+FEFF
ZeroWidthAndBOM == {"u200B", "u200C", "u200D", "uFEFF"}

\* C23: the zero-width characters and the BOM contribute nothing to the
\* result of normalizeCharacters: the result holds none of them, and it is the
\* result for the input without them.
C23_ZeroWidthRemoved ==
    normalized # NoText =>
        /\ \A i \in 1..Len(normalized) : normalized[i] \notin ZeroWidthAndBOM
        /\ normalized
             = normalizeCharacters(SelectSeq(inputText, LAMBDA u : u \notin ZeroWidthAndBOM))

\* the sections of a list of lines: a section starts at the first line and at
\* every line that opens with a section marker
SectionsOf(lines) ==
    LET starts == {i \in 1..Len(lines) : i = 1 \/ IsNewSection(lines[i])}
        EndOf(i) ==
            LET later == {j \in starts : j > i}
            IN  IF later = {} THEN Len(lines)
                ELSE (CHOOSE j \in later : \A k \in later : j <= k) - 1
    IN  [n \in 1..Cardinality(starts) |->
            LET i == CHOOSE s \in starts : Cardinality({t \in starts : t < s}) = n - 1
            IN  SubSeq(lines, i, EndOf(i))]

\* what line k of a section adds to its score: 3 for a heading that holds a
\* field keyword, the score of the line for a line of the body
ScoreAt(sec, k) ==
    IF k = 1 /\ IsNewSection(sec[1])
    THEN IF IncludesAny(sec[1], HeaderKeywords) THEN 3 ELSE 0
    ELSE LineScore(sec[k])

RECURSIVE ScoreUpTo(_, _)
\* the score a section has accumulated after its first k lines
ScoreUpTo(sec, k) == IF k = 0 THEN 0 ELSE ScoreUpTo(sec, k - 1) + ScoreAt(sec, k)

RECURSIVE LastRestart(_, _)
\* the last line of a section at which its accumulation restarts, given a
\* restart at line r: a blank line more than 3 lines later with no score so far
LastRestart(sec, r) ==
    LET K == {k \in (r + 4)..Len(sec) : Trim(sec[k]) = <<>> /\ ScoreUpTo(sec, k) = 0}
    IN  IF K = {} THEN r ELSE LastRestart(sec, CHOOSE k \in K : \A j \in K : k <= j)

\* the sections of a text with a score of at least 2, each as the lines it
\* accumulated since line `from` of it, joined by one blank line
RetainedFrom(text, from(_)) ==
    LET secs == SectionsOf(Split(text))
        kept == SelectSeq(secs, LAMBDA sec : ScoreUpTo(sec, Len(sec)) >= 2)
    IN  Trim(Join([n \in 1..Len(kept) |->
                      Join(SubSeq(kept[n], from(kept[n]) + 1, Len(kept[n])), <<"\n">>)],
                  <<"\n", "\n">>))

WholeSection(sec) == 0
SinceRestart(sec) == LastRestart(sec, 0)

\* the texts of the scoring path
ScoringPath ==
    /\ extracted # NoText
    /\ cut # NoText
    /\ TextLen(cut) >= SmallDocumentLength
    /\ TextLen(ExtractSections(cut)) >= MinExtractedLength

\* C24 as stated: on the scoring path the output is made of the sections
\* whose score is at least 2, whole, in their order, one blank line apart.
C24_SectionRetentionAsStated ==
    ScoringPath => extracted = RetainedFrom(cut, WholeSection)

\* C24: on the scoring path the output is made of the sections whose score is
\* at least 2, in their order, one blank line apart; of such a section the
\* output holds the lines after its last restart (a blank line more than 3
\* lines after the heading or the restart before, with no score so far).
C24_SectionRetention ==
    ScoringPath => extracted = RetainedFrom(cut, SinceRestart)

\* C24 witness: a section without score was dropped, and the section after
\* it, whose heading names a field, was kept.
C24_Witness ==
    /\ ScoringPath
    /\ inputText = SummaryOfLine \o FillerLine \o FieldHeaderLine \o FillerLine
    /\ extracted = Trim(FieldHeaderLine \o FillerLine)

\* C25: the text extractFieldSpecifications returns is no longer than the
\* normalized and cut text it was computed from.
C25_ReducedDocument ==
    (extracted # NoText /\ cut # NoText) => TextLen(extracted) <= TextLen(cut)

\* --------------------------------------------------------------------------
\* Properties of the type-specific tags (checked under XmlSpec)
\* --------------------------------------------------------------------------
\* the text of an attribute, or of its default when the attribute is unset
TextOr(x, d) == IF x = Undef THEN d ELSE ToStr(x)

\* C26: the document of a MasterDetail field holds a relationshipOrder element
\* with the relationshipOrder of the field, 0 when it is unset, and
\* reparentableMasterDetail and writeRequiresMasterRead elements with the
\* setting of the field, false when it is unset; the document of a field of
\* another type holds none of the three.
C26_MasterDetailTags ==
    Compiled =>
        IF field.type = S("MasterDetail")
        THEN /\ HasElem(xml, 1, Len(xml), "relationshipOrder",
                        TextOr(field.relationshipOrder, <<"0">>))
             /\ HasElem(xml, 1, Len(xml), "reparentableMasterDetail",
                        TextOr(field.reparentableMasterDetail, <<"false">>))
             /\ HasElem(xml, 1, Len(xml), "writeRequiresMasterRead",
                        TextOr(field.writeRequiresMasterRead, <<"false">>))
        ELSE LinesNamed(xml, "relationshipOrder") \cup LinesNamed(xml, "reparentableMasterDetail")
                \cup LinesNamed(xml, "writeRequiresMasterRead") = {}

\* the body of a flag element: 'true' for the boolean true, 'false' otherwise
FlagText(x) == IF x = B(TRUE) THEN <<"true">> ELSE <<"false">>

\* the document holds exactly one element `name`, with the body of flag x
OneFlag(name, x) ==
    /\ Cardinality(LinesNamed(xml, name)) = 1
    /\ HasElem(xml, 1, Len(xml), name, FlagText(x))

OneType(body) ==
    /\ Cardinality(LinesNamed(xml, "type")) = 1
    /\ HasElem(xml, 1, Len(xml), "type", body)

\* both a precision and a scale element are in the document, or neither
PrecisionAndScale(present) ==
    /\ (LinesNamed(xml, "precision") # {}) = present
    /\ (LinesNamed(xml, "scale") # {}) = present

C29_SelectionValid ==
    selectedId = Null \/ \E i \in 1..Len(fields) : fields[i].id = selectedId

\* --------------------------------------------------------------------------
\* Properties of the partial result (checked under GenSpec)
\* --------------------------------------------------------------------------
\* C30: when an invocation of handleAiGenerate ends in failure, partialResult
\* is set only if that invocation produced field JSON, and then holds that
\* JSON; the text that was in the paste box when the invocation started is
\* never the partial result of the failed invocation.
C30_PartialFromSameInvocation ==
    [][(isGenerating /\ ~isGenerating' /\ failure' # NoMsg /\ partialResult' # Null)
            => /\ result' # NoValue
               /\ partialResult'.json = Stringify(result')
               /\ partialResult'.json # jsonText]_vars

====
